---- MODULE Spec2Model ----
(***************************************************************************)
(* disk-health-monitor (disk-health-monitor-enhanced-CHS-Delta.py).        *)
(*                                                                         *)
(* Strings are records tagged by `kind':                                   *)
(*   [kind |-> "size", h, dec, unit]  a labelled size "<h/100> <unit>"     *)
(*                                    printed with `dec' decimals          *)
(*   [kind |-> "num", v]              a bare decimal number (a byte count) *)
(*   [kind |-> "na"]                  the literal "N/A"                    *)
(*   [kind |-> "empty"]               the empty string ""                  *)
(*   [kind |-> "reset"]               the literal reset marker             *)
(*   [kind |-> "text", id]            any other text                       *)
(* Python's None is [kind |-> "None"].                                     *)
(*                                                                         *)
(* Byte counts are Python floats.  They are modelled exactly, in           *)
(* hundredths of a byte, as little-endian numbers of NLimbs limbs in base  *)
(* 1024 (TLC's integers are 32 bits wide, a terabyte is 2^40 bytes).  All  *)
(* sizes of the model have at most two decimals, so every quantity is a    *)
(* whole number of hundredths.                                             *)
(***************************************************************************)
EXTENDS Integers, Sequences, FiniteSets, TLC

\* ---------------------------------------------------------------- bounds
NLimbs == 8
MaxWhole == 3
MaxDisks == 2
MaxRuns == 2
MaxTemp == 400
MaxHours == 26301

\* ------------------------------------------------------ program constants
Base == 1024
LastUnit == 5
EscalateAt == 1000
TwoDecimalsBelow == 10
OneDecimalBelow == 100

VARIABLES
    pc,                 \* where the run (or the call) is
    inp, ret,           \* the arguments and the result of a call of a pure function
    host,               \* the tools installed on the host and the command line
    file,               \* the text of DATA_FILE
    clock,              \* the number of the run; the wall clock
    controller_tables,  \* process_controller_info's result
    disks,              \* the disk inventory of the run
    disk_to_pool,
    previous_data,      \* load_previous_disk_data's result
    current_disk_data,
    all_disk_data,      \* the rows, one per processed disk
    smart_data,         \* what the extractor returned for each processed disk
    increment_disk_data,
    output_tables,      \* what process_disk_info prints and returns
    exit_code,
    calls,              \* how often the run has loaded, saved, resolved pools, probed a disk
    file0,              \* the text of DATA_FILE when the run began
    save_outcome        \* how the run's save_disk_data ended

pureVars == <<inp, ret>>
runVars == <<host, file, clock, controller_tables, disks, disk_to_pool, previous_data,
             current_disk_data, all_disk_data, smart_data, increment_disk_data,
             output_tables, exit_code, calls, file0, save_outcome>>
vars == <<pc, inp, ret, host, file, clock, controller_tables, disks, disk_to_pool,
          previous_data, current_disk_data, all_disk_data, smart_data,
          increment_disk_data, output_tables, exit_code, calls, file0, save_outcome>>

\* ------------------------------------------------- exact float arithmetic
LimbIdx == 0 .. (NLimbs - 1)

Pow(i) == IF i = 0 THEN 1 ELSE IF i = 1 THEN Base ELSE IF i = 2 THEN Base * Base
          ELSE Base * Base * Base

\* n < 2^31, as limbs
FromInt(n) == [i \in LimbIdx |-> IF i <= 3 THEN (n \div Pow(i)) % Base ELSE 0]

\* x * 1024^u
ShiftL(x, u) == [i \in LimbIdx |-> IF i >= u THEN x[i - u] ELSE 0]

Less(x, y) == \E i \in LimbIdx : /\ x[i] < y[i]
                                 /\ \A j \in LimbIdx : j > i => x[j] = y[j]

\* the borrow into limb i of x - y
Borrow(x, y, i) == \E k \in LimbIdx : /\ k < i
                                      /\ x[k] < y[k]
                                      /\ \A j \in LimbIdx : (k < j /\ j < i) => x[j] = y[j]

\* x - y, for y <= x
Sub(x, y) == [i \in LimbIdx |->
                (x[i] - y[i] - (IF Borrow(x, y, i) THEN 1 ELSE 0) + Base) % Base]

\* floor(x / 1024^u), which the callers keep below 2^31
High(x, u) == LET l(i) == IF i \in LimbIdx THEN x[i] ELSE 0
              IN  l(u) + Base * l(u + 1) + Base * Base * l(u + 2)

\* the fraction x / 1024^u - floor(x / 1024^u) against one half, and against zero
FracCmpHalf(x, u) ==
    IF u = 0 THEN "lt"
    ELSE LET rest == \E j \in LimbIdx : j < u - 1 /\ x[j] # 0
         IN  IF x[u - 1] > Base \div 2 \/ (x[u - 1] = Base \div 2 /\ rest) THEN "gt"
             ELSE IF x[u - 1] = Base \div 2 THEN "eq"
             ELSE "lt"

FracIsZero(x, u) == \A j \in LimbIdx : j < u => x[j] = 0

\* ---------------------------------------------------------------- strings
NA == [kind |-> "na"]
EmptyStr == [kind |-> "empty"]
RESET == [kind |-> "reset"]
None == [kind |-> "None"]
SizeStr(h, dec, unit) == [kind |-> "size", h |-> h, dec |-> dec, unit |-> unit]
NumStr(v) == [kind |-> "num", v |-> v]
Text(id) == [kind |-> "text", id |-> id]
\* a string of digits, with or without thousands separators; a decimal such as
\* "26.9"; a duration such as "3y 21hrs"
IntStr(n) == [kind |-> "int", n |-> n, commas |-> FALSE]
CommaStr(n) == [kind |-> "int", n |-> n, commas |-> TRUE]
DecStr(t) == [kind |-> "decimal", tenths |-> t]
Duration(parts) == [kind |-> "dur", parts |-> parts]

\* units = ['B', 'KB', 'MB', 'GB', 'TB', 'PB'], by index
B == 0
KB == 1
MB == 2
GB == 3
TB == 4
PB == 5

\* ------------------------------------------------------------ format_size
\* the unit index the while loop stops at: size >= 1024 and unit_index < len(units) - 1
RECURSIVE LadderIndex(_, _)
LadderIndex(c, i) ==
    IF i < LastUnit /\ ~Less(c, ShiftL(FromInt(100 * Base), i))
    THEN LadderIndex(c, i + 1)
    ELSE i

\* size >= 1000 in unit i
AtLeast1000(c, i) == ~Less(c, ShiftL(FromInt(100 * EscalateAt), i))

\* a variant that always renders int(size)
Render_no_decimals(c, u) == SizeStr(100 * (High(c, u) \div 100), 0, u)

\* f"{size:.2f}", f"{size:.1f}", int(size): round-half-even on the exact value
Render(c, u) ==
    LET q == High(c, u)
        f == FracCmpHalf(c, u)
        up2 == f = "gt" \/ (f = "eq" /\ q % 2 = 1)
        a == q \div 10
        b == q % 10
        up1 == b > 5 \/ (b = 5 /\ ~FracIsZero(c, u)) \/ (b = 5 /\ FracIsZero(c, u) /\ a % 2 = 1)
    IN  IF q < 100 * TwoDecimalsBelow
        THEN SizeStr(q + (IF up2 THEN 1 ELSE 0), 2, u)
        ELSE IF q < 100 * OneDecimalBelow
        THEN SizeStr(10 * (a + (IF up1 THEN 1 ELSE 0)), 1, u)
        ELSE SizeStr(100 * (q \div 100), 0, u)

\* the float a numeric string or number denotes, in hundredths, as limbs
IsNumber(x) == x.kind = "num" \/ (x.kind = "int" /\ ~x.commas)
FloatOf(x) == IF x.kind = "num" THEN x.v ELSE FromInt(100 * x.n)

\* format_size: float(size_bytes) raises on anything but a number, and the
\* argument comes back as a string
format_size(size_bytes) ==
    IF IsNumber(size_bytes)
    THEN LET c == FloatOf(size_bytes)
             u0 == LadderIndex(c, 0)
             u1 == IF u0 = GB /\ AtLeast1000(c, u0) THEN u0 + 1 ELSE u0
             u2 == IF u1 = MB /\ AtLeast1000(c, u1) THEN u1 + 1 ELSE u1
         IN  Render(c, u2)
    ELSE size_bytes

\* ---------------------------------------------------- parse_size_to_bytes
\* a variant that returns the number without its unit's multiplier
parse_size_to_bytes_unitless(size_str) ==
    IF size_str.kind # "size" THEN None
    ELSE NumStr(FromInt(size_str.h))

\* None, or the byte count as a number
parse_size_to_bytes(size_str) ==
    IF size_str.kind \in {"None", "empty", "na"} THEN None
    ELSE IF size_str.kind # "size" THEN None
    ELSE NumStr(ShiftL(FromInt(size_str.h), size_str.unit))

\* ---------------------------------------------------- normalize_size_unit
\* a labelled size matches the pattern (\d+\.?\d*)\s*([KMGTP]?B); a bare number
\* does not and goes through float(size_str); any other string comes back as is
normalize_size_unit(size_str) ==
    IF size_str.kind \in {"None", "empty"} THEN NA
    ELSE IF size_str.kind = "size"
    THEN format_size(NumStr(ShiftL(FromInt(size_str.h), size_str.unit)))
    ELSE IF IsNumber(size_str) THEN format_size(NumStr(FloatOf(size_str)))
    ELSE size_str

\* ----------------------------------------------- calculate_size_increment
\* a variant that leaves out the test diff_bytes < 0 and reports the distance
calculate_size_increment_unsigned(old_value, new_value) ==
    LET old_bytes == parse_size_to_bytes(old_value)
        new_bytes == parse_size_to_bytes(new_value)
    IN  IF old_bytes = None \/ new_bytes = None THEN NA
        ELSE IF Less(new_bytes.v, old_bytes.v)
        THEN normalize_size_unit(NumStr(Sub(old_bytes.v, new_bytes.v)))
        ELSE normalize_size_unit(NumStr(Sub(new_bytes.v, old_bytes.v)))

calculate_size_increment(old_value, new_value) ==
    LET old_bytes == parse_size_to_bytes(old_value)
        new_bytes == parse_size_to_bytes(new_value)
    IN  IF old_bytes = None \/ new_bytes = None THEN NA
        ELSE IF Less(new_bytes.v, old_bytes.v) THEN RESET
        ELSE normalize_size_unit(NumStr(Sub(new_bytes.v, old_bytes.v)))

\* ----------------------------------------------------------- format_hours

HoursPerYear == 8760
HoursPerMonth == 720
HoursPerDay == 24

\* result.append(f"{n}{suffix}") under a condition
AppendIf(result, cond, n, suffix) == IF cond THEN Append(result, <<n, suffix>>) ELSE result

\* a variant that appends every component, zero or not
Components_all(years, months, days, hours) ==
    <<<<years, "y">>, <<months, "m">>, <<days, "d">>, <<hours, "hrs">>>>

\* lines 127-137: the components that are appended, " ".join(result) being
\* the sequence of them
Components(years, months, days, hours) ==
    AppendIf(AppendIf(AppendIf(AppendIf(<<>>, years > 0, years, "y"),
                               months > 0, months, "m"),
                      days > 0, days, "d"),
             hours > 0 \/ (years <= 0 /\ months <= 0 /\ days <= 0), hours, "hrs")

\* the three divmods of lines 123-125
Decompose(hours) ==
    Components(hours \div HoursPerYear,
               (hours % HoursPerYear) \div HoursPerMonth,
               ((hours % HoursPerYear) % HoursPerMonth) \div HoursPerDay,
               ((hours % HoursPerYear) % HoursPerMonth) % HoursPerDay)

\* int(hours_str) succeeds on a string of digits only; on anything else it
\* raises ValueError or TypeError and the argument comes back
format_hours(hours_str) ==
    IF hours_str.kind = "int" /\ ~hours_str.commas
    THEN Duration(Decompose(hours_str.n))
    ELSE hours_str

\* ----------------------------------------------------------- format_value
format_value(value, attribute) ==
    IF value = None THEN NA
    ELSE IF attribute = "Power_On_Hours" THEN format_hours(value)
    ELSE value

\* ---------------------------------------------------------- classify_disk
\* "VMware" in disk_model or "Virtual" in disk_model
VirtualModels == {"VMware Virtual disk", "Virtual HD"}
\* disk_name.startswith("nvme")
NvmeNames == {"nvme0n1"}
\* disk_type.upper() == "HDD"
HddTypes == {"HDD", "hdd"}

\* a field that is null in the JSON of midclt: disk.get(key, "") is None
JsonNull == "null"

\* "VMware" in None raises TypeError, None.startswith and None.upper raise
\* AttributeError: the result is then the name of the exception
classify_disk(disk_name, disk_type, disk_model) ==
    IF disk_model = JsonNull THEN "TypeError"
    ELSE IF disk_model \in VirtualModels THEN "VIRTUAL"
    ELSE IF disk_name = JsonNull THEN "AttributeError"
    ELSE IF disk_name \in NvmeNames THEN "NVME_SSD"
    ELSE IF disk_type = JsonNull THEN "AttributeError"
    ELSE IF disk_type \in HddTypes THEN "SAS_HDD"
    ELSE "SAS_SSD"

\* --------------------------------------------------- DISK_TYPE_ATTRIBUTES
DISK_TYPE_ATTRIBUTES(device_class) ==
    CASE device_class = "SAS_SSD" ->
           <<"Temperature", "Trip_Temperature", "Power_On_Hours", "Power_Cycles",
             "Percentage_Used", "Smart_Status", "Data_Read", "Data_Written",
             "Non_Medium_Errors", "Uncorrected_Errors">>
      [] device_class = "SAS_HDD" ->
           <<"Temperature", "Trip_Temperature", "Power_On_Hours", "Power_Cycles",
             "Smart_Status", "Data_Read", "Data_Written",
             "Non_Medium_Errors", "Uncorrected_Errors">>
      [] device_class = "NVME_SSD" ->
           <<"Temperature", "Warning_Temperature", "Critical_Temperature",
             "Power_On_Hours", "Power_Cycles", "Percentage_Used", "Available_Spare",
             "Smart_Status", "Data_Read", "Data_Written">>
      [] device_class = "VIRTUAL" -> <<"Type">>
      [] OTHER -> <<>>

Range(seq) == {seq[i] : i \in DOMAIN seq}

\* ---------------------------------------------------------- Python dicts
\* a dict is a function of its keys; d.get(k, default), k in d, d[k] = v
EmptyDict == [k \in {} |-> None]
Get(d, k, default) == IF k \in DOMAIN d THEN d[k] ELSE default
Put(d, k, v) == [x \in DOMAIN d \cup {k} |-> IF x = k THEN v ELSE d[x]]
PyDict(m) == [kind |-> "dict", m |-> m]
\* the empty list
PyList == [kind |-> "list"]

\* truth value of a Python object
Truthy(x) == ~(x.kind \in {"None", "empty", "list"} \/ (x.kind = "dict" /\ DOMAIN x.m = {}))

\* ------------------------------------------------------------------ JSON
\* The text of DATA_FILE: absent, not JSON at all, or a JSON value.  A JSON
\* object is the sequence of its members, a string is its characters.
FileAbsent == [kind |-> "absent"]
FileGarbage == [kind |-> "garbage"]
FileJson(j) == [kind |-> "json", j |-> j]
JObject(members) == [j |-> "object", members |-> members]
JString(s) == [j |-> "string", s |-> s]
\* the array []
JArray == [j |-> "array"]
JNull == [j |-> "null"]

RECURSIVE SetToSeq(_)
SetToSeq(S) == IF S = {} THEN <<>>
               ELSE LET x == CHOOSE y \in S : TRUE IN <<x>> \o SetToSeq(S \ {x})

\* json.dump of a dict of dicts of strings
RECURSIVE json_dump(_)
json_dump(obj) ==
    IF obj.kind = "dict"
    THEN LET keys == SetToSeq(DOMAIN obj.m)
         IN  JObject([i \in DOMAIN keys |-> <<keys[i], json_dump(obj.m[keys[i]])>>])
    ELSE IF obj.kind = "None" THEN JNull
    ELSE IF obj.kind = "list" THEN JArray
    ELSE JString(obj)

\* json.load: of two members with one key the later one wins
RECURSIVE json_load(_)
json_load(j) ==
    IF j.j = "object"
    THEN LET keys == {j.members[i][1] : i \in DOMAIN j.members}
             last(k) == CHOOSE i \in DOMAIN j.members :
                          /\ j.members[i][1] = k
                          /\ \A n \in DOMAIN j.members : j.members[n][1] = k => n <= i
         IN  PyDict([k \in keys |-> json_load(j.members[last(k)][2])])
    ELSE IF j.j = "null" THEN None
    ELSE IF j.j = "array" THEN PyList
    ELSE j.s

\* datetime.now().strftime('%Y-%m-%d %H:%M:%S') at time t
TimeStr(t) == [kind |-> "time", t |-> t]

\* ------------------------------------------------ load_previous_disk_data
\* a variant that returns the disks member of the document in place of the
\* document
load_previous_disk_data_disks_only(f) ==
    IF f.kind = "json"
    THEN LET data == json_load(f.j)
         IN  IF data.kind = "dict" /\ "disks" \in DOMAIN data.m THEN data.m["disks"] ELSE data
    ELSE PyDict(EmptyDict)

load_previous_disk_data(f) ==
    IF f.kind = "json" THEN json_load(f.j)
    ELSE PyDict([timestamp |-> EmptyStr, disks |-> PyDict(EmptyDict)])

\* ---------------------------------------------------------- save_disk_data
\* outcome "ok": the file is overwritten; "unwritable": makedirs or open raises
\* and the file is as it was; "truncated": open has emptied the file and the
\* write raises, what is left is no JSON document
\* a variant that keeps the disks of the file it overwrites
save_disk_data_merging(f, disk_data, now, outcome) ==
    LET old == load_previous_disk_data(f)
        kept == IF old.kind = "dict" /\ "disks" \in DOMAIN old.m /\ old.m["disks"].kind = "dict"
                THEN old.m["disks"].m ELSE EmptyDict
        merged == [n \in DOMAIN kept \cup DOMAIN disk_data |->
                     IF n \in DOMAIN disk_data THEN disk_data[n] ELSE kept[n]]
    IN  IF outcome = "ok"
        THEN FileJson(json_dump(PyDict([timestamp |-> TimeStr(now), disks |-> PyDict(merged)])))
        ELSE IF outcome = "truncated" THEN FileGarbage
        ELSE f

save_disk_data(f, disk_data, now, outcome) ==
    IF outcome = "ok"
    THEN FileJson(json_dump(PyDict([timestamp |-> TimeStr(now), disks |-> PyDict(disk_data)])))
    ELSE IF outcome = "truncated" THEN FileGarbage
    ELSE f

\* ------------------------------------------------------- diagnostic text
\* The output of a command is the empty string (run_command returns
\* result.stdout.strip(), empty when the tool printed nothing) or a text, which
\* is the record of what each pattern of the extractor finds in it: None where
\* the pattern does not match, the captured group where it does.
\*
\* smartctl -H:  passed, ok, failed   "PASSED" in text, "OK" in text, "FAILED" in text
\*               label                "Percentage used endurance indicator:" in text
\*               endurance            ...indicator:\s+(\d+)%
HealthText(passed, ok, failed, label, endurance) ==
    [kind |-> "health", passed |-> passed, ok |-> ok, failed |-> failed,
     label |-> label, endurance |-> endurance]

\* a variant in which the last matching strategy wins
FirstMatch_last(caps) ==
    IF \A i \in DOMAIN caps : caps[i] = None THEN None
    ELSE caps[CHOOSE i \in DOMAIN caps : caps[i] # None /\ \A j \in (i + 1) .. Len(caps) : caps[j] = None]

FirstMatch(caps) ==
    IF \A i \in DOMAIN caps : caps[i] = None THEN None
    ELSE caps[CHOOSE i \in DOMAIN caps : caps[i] # None /\ \A j \in 1 .. (i - 1) : caps[j] = None]

\* value.replace(',', '')
StripCommas(value) == IF value.kind = "int" THEN IntStr(value.n) ELSE value

PutIf(d, cond, k, v) == IF cond THEN Put(d, k, v) ELSE d

\* a variant that looks for FAILED first
SmartStatus_failed_first(health_output) ==
    IF health_output.failed THEN Text("FAILED")
    ELSE IF health_output.passed THEN Text("PASSED")
    ELSE IF health_output.ok THEN Text("OK")
    ELSE Text("unknown")

\* smart_status of a health text
SmartStatus(health_output) ==
    IF health_output.passed THEN Text("PASSED")
    ELSE IF health_output.ok THEN Text("OK")
    ELSE IF health_output.failed THEN Text("FAILED")
    ELSE Text("unknown")

\* the unit a [10^N bytes] marker declares
Marker(base, exponent) == [kind |-> "marker", base |-> base, exponent |-> exponent]
UnitOf(marker) ==
    IF marker = None THEN GB
    ELSE IF marker.base = 10 /\ marker.exponent = 9 THEN GB
    ELSE IF marker.base = 10 /\ marker.exponent = 12 THEN TB
    ELSE GB

\* an "Error counter log" section: its [..] marker and the magnitudes (in
\* hundredths) its read and write patterns capture
Mag(h) == [kind |-> "mag", n |-> h]
Section(marker, read, write) == [kind |-> "section", marker |-> marker, read |-> read, write |-> write]

MagOf(m) == IF m = None THEN 0 ELSE m.n

SectionData(d, section) ==
    IF section = None THEN d
    ELSE PutIf(PutIf(d, section.read # None, "Data_Read",
                     normalize_size_unit(SizeStr(MagOf(section.read), 2, UnitOf(section.marker)))),
               section.write # None, "Data_Written",
               normalize_size_unit(SizeStr(MagOf(section.write), 2, UnitOf(section.marker))))

\* the rows (read|write):(?:\s+\d+){5}\s+(\d+\.\d+) finds, in order
RECURSIVE FallbackRows(_, _, _)
FallbackRows(d, rows, i) ==
    IF i > Len(rows) THEN d
    ELSE FallbackRows(
           PutIf(PutIf(d, rows[i][1] = "read" /\ "Data_Read" \notin DOMAIN d, "Data_Read",
                       normalize_size_unit(NumStr(ShiftL(FromInt(rows[i][2]), GB)))),
                 rows[i][1] = "write" /\ "Data_Written" \notin DOMAIN d, "Data_Written",
                 normalize_size_unit(NumStr(ShiftL(FromInt(rows[i][2]), GB)))),
           rows, i + 1)

\* the body of `if non_medium_match:', which lines 771-837 are
Fallback(d, output) ==
    IF "Data_Read" \notin DOMAIN d \/ "Data_Written" \notin DOMAIN d
    THEN FallbackRows(d, output.fallback, 1)
    ELSE d

NonMedium(d, output) ==
    IF output.non_medium = None THEN d
    ELSE Fallback(SectionData(Put(d, "Non_Medium_Errors", output.non_medium), output.sec1), output)

\* lines 689-704, on the output of smartctl -H
Health(d, health_output) ==
    IF ~Truthy(health_output) THEN d
    ELSE PutIf(Put(d, "Smart_Status", SmartStatus(health_output)),
               health_output.label /\ health_output.endurance # None,
               "Percentage_Used", health_output.endurance)

\* lines 711-767, on the output of smartctl -a
Basics(d, temp, trip, hours, cycles) ==
    PutIf(PutIf(PutIf(PutIf(d, temp # None, "Temperature", temp),
                      trip # None, "Trip_Temperature", trip),
                hours # None, "Power_On_Hours", StripCommas(hours)),
          cycles # None, "Power_Cycles", StripCommas(cycles))

\* the lengths of hours_patterns and cycles_patterns, lines 737-767 and 638-643
SataHoursPatterns == 6
SataCyclesPatterns == 6
NvmeHoursPatterns == 4

\* -------------------------------------------------------- get_sata_smart_data
get_sata_smart_data(health_output, output) ==
    IF ~Truthy(output) THEN Health(EmptyDict, health_output)
    ELSE SectionData(
           PutIf(NonMedium(Basics(Health(EmptyDict, health_output),
                                  FirstMatch(output.temp), FirstMatch(output.trip),
                                  FirstMatch(output.hours), FirstMatch(output.cycles)),
                           output),
                 output.uncorrected # None, "Uncorrected_Errors", output.uncorrected),
           output.sec2)

\* -------------------------------------------------------- get_nvme_smart_data
KelvinAbove == 200

\* round(int(temp) - 273.15, 1), in tenths: the float 273.15 is below 273.15,
\* so that the difference is above x.85 and rounds up (for temp below 1298,
\* where the spacing of the floats is still finer than that)
Celsius(temp) == DecStr(10 * temp.n - 2731)

\* a variant that takes 200 for Kelvin too
NvmeTemperature_from_200(temp) ==
    IF temp # None /\ temp.n >= KelvinAbove THEN Celsius(temp) ELSE temp

\* lines 618-626
NvmeTemperature(temp) ==
    IF temp # None /\ temp.n > KelvinAbove THEN Celsius(temp) ELSE temp

\* lines 600-610
NvmeHealth(health_output) ==
    IF Truthy(health_output) THEN [Smart_Status |-> SmartStatus(health_output)] ELSE EmptyDict

\* lines 617-664
NvmeBasics(d, output, hours) ==
    PutIf(PutIf(PutIf(PutIf(PutIf(PutIf(d,
        output.temp # None, "Temperature", NvmeTemperature(output.temp)),
        output.warning # None, "Warning_Temperature", output.warning),
        output.critical # None, "Critical_Temperature", output.critical),
        hours # None, "Power_On_Hours", StripCommas(hours)),
        output.spare # None, "Available_Spare", StripCommas(output.spare)),
        output.pct_used # None, "Percentage_Used", StripCommas(output.pct_used))

get_nvme_smart_data(vendor_check, health_output, output) ==
    IF Truthy(vendor_check) /\ vendor_check.vmware
    THEN [Smart_Status |-> Text("virtual device"), Type |-> Text("virtual NVMe device")]
    ELSE IF ~Truthy(output) THEN NvmeHealth(health_output)
    ELSE PutIf(PutIf(PutIf(NvmeBasics(NvmeHealth(health_output), output, FirstMatch(output.hours)),
                           output.cycles # None, "Power_Cycles", StripCommas(output.cycles)),
                     output.read # None, "Data_Read", normalize_size_unit(output.read)),
               output.written # None, "Data_Written", normalize_size_unit(output.written))

\* ------------------------------------------------------------ the host
\* which tools are installed, and the command line of the run
Host(smartctl, storcli, lspci, midclt, zpool, lsblk) ==
    [kind |-> "host", smartctl |-> smartctl, storcli |-> storcli, lspci |-> lspci,
     midclt |-> midclt, zpool |-> zpool, lsblk |-> lsblk,
     controller_only |-> FALSE, no_controller |-> FALSE, no_group |-> FALSE]

FullHost == Host(TRUE, TRUE, TRUE, TRUE, TRUE, TRUE)

Hosts ==
    {FullHost,
     Host(FALSE, TRUE, TRUE, TRUE, TRUE, TRUE),
     Host(TRUE, FALSE, TRUE, TRUE, TRUE, TRUE),
     Host(TRUE, TRUE, FALSE, TRUE, TRUE, TRUE),
     Host(TRUE, FALSE, FALSE, FALSE, TRUE, TRUE),
     Host(TRUE, FALSE, FALSE, FALSE, FALSE, TRUE),
     Host(TRUE, TRUE, TRUE, FALSE, FALSE, FALSE),
     [FullHost EXCEPT !.controller_only = TRUE],
     [FullHost EXCEPT !.no_controller = TRUE],
     [FullHost EXCEPT !.no_group = TRUE]}

\* ------------------------------------------------------ the disks it holds
Bytes(h, unit) == NumStr(ShiftL(FromInt(h), unit))

\* what midclt call disk.query reports of a disk
MidcltDisk(name) ==
    CASE name = "sda" -> [name |-> "sda", type |-> "HDD", model |-> "ST4000NM0035", size |-> Bytes(364, TB)]
      [] name = "sdb" -> [name |-> "sdb", type |-> "SSD", model |-> "VMware Virtual disk", size |-> Bytes(1600, GB)]
      [] name = "sdc" -> [name |-> "sdc", type |-> "SSD", model |-> "SAMSUNG MZILS960", size |-> Bytes(89400, GB)]
      [] name = "nvme0n1" -> [name |-> "nvme0n1", type |-> "SSD", model |-> "Samsung SSD 980", size |-> Bytes(93150, GB)]

\* what get_disks_from_lsblk makes of a line of lsblk
LsblkDisk(name) ==
    [name |-> name,
     type |-> IF name \in NvmeNames THEN "SSD" ELSE "HDD",
     model |-> MidcltDisk(name).model,
     size |-> Text("3.6T")]

\* sorted(..., key=disk name): the names in their order
SortedNames == <<"nvme0n1", "sda", "sdb", "sdc">>

\* the disks in the order the host's tools list them
Attached == <<"sdb", "sda", "nvme0n1">>

RECURSIVE SubSeqs(_)
SubSeqs(q) ==
    IF q = <<>> THEN {<<>>}
    ELSE LET rest == SubSeqs(Tail(q))
         IN  rest \cup {<<Head(q)>> \o r : r \in rest}

\* the lists of attached disks, at most MaxDisks long
NameLists == {q \in SubSeqs(Attached) : Len(q) <= MaxDisks}

\* ------------------------------------------------------- what smartctl says
HealthPassed == HealthText(TRUE, FALSE, FALSE, FALSE, None)
HealthOk == HealthText(FALSE, TRUE, FALSE, TRUE, IntStr(3))
\* a text with none of the words, such as the report of a device that does not open
HealthOther == HealthText(FALSE, FALSE, FALSE, FALSE, None)

\* smartctl -a of a SAS disk: the error counter log in its own layout, the rows
\* ending in the count of uncorrected errors
SasOutput(read, written) ==
    [kind |-> "smart",
     temp |-> <<IntStr(35), None, None, IntStr(35)>>,
     trip |-> <<IntStr(65), None>>,
     hours |-> <<None, None, IntStr(26301), None, None, IntStr(26301)>>,
     cycles |-> <<None, None, IntStr(120), IntStr(120), None, IntStr(10000)>>,
     non_medium |-> IntStr(7),
     sec1 |-> Section(Marker(10, 9), None, None),
     fallback |-> <<<<"read", read>>, <<"write", written>>>>,
     uncorrected |-> IntStr(0),
     sec2 |-> Section(Marker(10, 9), None, None)]

\* the same log with rows that end in the magnitude, in units of 10^12 bytes
SasShortRows(read, written) ==
    [SasOutput(read, written) EXCEPT !.sec2 = Section(Marker(10, 12), Mag(read), Mag(written))]

\* smartctl -a of an ATA disk: an attribute table, no error counter log
AtaOutput ==
    [kind |-> "smart",
     temp |-> <<None, None, IntStr(0), IntStr(0)>>,
     trip |-> <<None, None>>,
     hours |-> <<None, IntStr(0), None, None, None, None>>,
     cycles |-> <<None, IntStr(0), None, None, None, None>>,
     non_medium |-> None,
     sec1 |-> None,
     fallback |-> <<>>,
     uncorrected |-> None,
     sec2 |-> None]

\* smartctl -a of an NVMe disk
NvmeOutput(read, written) ==
    [kind |-> "smart",
     temp |-> IntStr(45),
     warning |-> IntStr(81),
     critical |-> IntStr(85),
     hours |-> <<CommaStr(1234), None, None, None>>,
     spare |-> IntStr(100),
     pct_used |-> IntStr(2),
     cycles |-> CommaStr(1050),
     read |-> read,
     written |-> written]

Vendor(vmware) == [kind |-> "vendor", vmware |-> vmware]

\* the outputs of the commands run on one disk: smartctl -i | grep, -H, -a
Probe(vendor_check, health_output, output) ==
    [vendor_check |-> vendor_check, health_output |-> health_output, output |-> output]
NoData == Probe(EmptyStr, EmptyStr, EmptyStr)

SataProbes ==
    {NoData,
     Probe(EmptyStr, HealthOk, SasOutput(15000, 5000)),
     Probe(EmptyStr, HealthOk, SasOutput(204800, 5000)),
     Probe(EmptyStr, HealthOther, EmptyStr)}

NvmeProbes ==
    {NoData,
     Probe(Vendor(FALSE), HealthPassed, NvmeOutput(SizeStr(1880, 1, TB), SizeStr(205, 2, TB))),
     Probe(Vendor(FALSE), HealthPassed, NvmeOutput(SizeStr(1000, 0, TB), SizeStr(205, 2, TB)))}

ProbesOf(device_class) ==
    IF device_class = "NVME_SSD" THEN NvmeProbes
    ELSE IF device_class = "VIRTUAL" THEN {NoData}
    ELSE SataProbes

\* ------------------------------------------------------------ size inputs
Mantissas == {100 * n : n \in 0 .. MaxWhole} \cup {1, 150, 999, 1000, 99950}

DecOf(h) == IF h % 100 = 0 THEN {0, 1, 2} ELSE IF h % 10 = 0 THEN {1, 2} ELSE {2}

SizeStrings == {SizeStr(h, d, u) : h \in Mantissas, d \in {0, 1, 2}, u \in {B, GB, TB}}
                  \cap {s \in [kind : {"size"}, h : Mantissas, dec : {0, 1, 2}, unit : {B, GB, TB}] :
                          s.dec \in DecOf(s.h)}

Unparseable == {NA, EmptyStr, RESET, Text("abc"), NumStr(FromInt(500))}

\* ------------------------------------------- calculate_size_increment runs
Idle ==
    /\ host = None /\ file = FileAbsent /\ clock = 0 /\ controller_tables = <<>>
    /\ disks = <<>> /\ disk_to_pool = EmptyDict /\ previous_data = None
    /\ current_disk_data = EmptyDict /\ all_disk_data = <<>> /\ smart_data = <<>>
    /\ increment_disk_data = <<>> /\ output_tables = <<>> /\ exit_code = None
    /\ calls = None /\ file0 = FileAbsent /\ save_outcome = "none"

InitDelta ==
    /\ pc = "call"
    /\ inp \in (SizeStrings \cup Unparseable) \X (SizeStrings \cup Unparseable)
    /\ ret = None
    /\ Idle

CallDelta ==
    /\ pc = "call"
    /\ ret' = calculate_size_increment(inp[1], inp[2])
    /\ pc' = "return"
    /\ UNCHANGED <<inp, runVars>>

NextDelta == CallDelta

SpecDelta == InitDelta /\ [][NextDelta]_vars

\* ------------------------------------------------- process_controller_info
\* The host has one LSI HBA and one NVMe controller.  storcli reports the HBA
\* with its temperature; without storcli lspci reports it without one.
get_lsi_controller_info(h) ==
    IF h.storcli
    THEN <<[name |-> "LSI_Controller_0", source |-> "storcli", temperature |-> IntStr(52)]>>
    ELSE IF h.lspci
    THEN <<[name |-> "LSI_Controller_01:00.0", source |-> "lspci", temperature |-> NA]>>
    ELSE <<>>

get_nvme_controller_info(h) ==
    IF h.lspci THEN <<[name |-> "NVMe_Controller_02:00.0", source |-> "lspci", temperature |-> NA]>>
    ELSE <<>>

process_controller_info(h) ==
    IF h.no_controller THEN <<>>
    ELSE LET lsi_controllers == get_lsi_controller_info(h)
             nvme_controllers == get_nvme_controller_info(h)
         IN  (IF lsi_controllers # <<>> THEN <<[title |-> "LSI", rows |-> lsi_controllers]>> ELSE <<>>)
             \o (IF nvme_controllers # <<>> THEN <<[title |-> "NVMe", rows |-> nvme_controllers]>> ELSE <<>>)

\* ------------------------------------------------------------- inventory
\* names: the disks attached to the host, in the order the tools list them
\* what run_command("midclt call disk.query") returns: None after a call
\* that failed, the empty string, text that is no JSON, or the JSON list of
\* the disks
MidcltNotJson == [kind |-> "garbage"]
MidcltList(names) == [kind |-> "json", disks |-> [i \in DOMAIN names |-> MidcltDisk(names[i])]]
MidcltReplies(h, names) ==
    IF h.midclt THEN {MidcltList(names), MidcltNotJson, EmptyStr, None} ELSE {None}

\* get_disks_from_midclt, lines 347-359, on the output of the command
disks_of_midclt(output) ==
    IF ~Truthy(output) THEN <<>>
    ELSE IF output.kind = "json" THEN output.disks
    ELSE <<>>

get_disks_from_midclt(h, names) ==
    disks_of_midclt(IF h.midclt THEN MidcltList(names) ELSE None)

get_disks_from_lsblk(h, names) ==
    IF h.lsblk THEN [i \in DOMAIN names |-> LsblkDisk(names[i])] ELSE <<>>

\* ---------------------------------------------- normalize_size_unit, alone
\* the function applied to an input and then to its own result; the magnitudes
\* of the inputs, in hundredths, lie around the precision boundaries 10 and
\* 100, the escalation at 1000 and the ladder step at 1024
Hundredths ==
    {0, 1, 99, 100, 512, 980, 999, 1000, 1001, 1600, 9990, 9996, 9999, 10000, 10001,
     99900, 99999, 100000, 100001, 102300, 102399, 102400, 1023990, 1023999}

\* labelled sizes such as "99.96 GB", and bare byte counts such as
\* "1099511627776" and "10737418239" (one byte below 10 GB)
SizeInputs ==
    {SizeStr(h, 2, u) : h \in Hundredths, u \in B .. PB}
    \cup {NumStr(ShiftL(FromInt(100 * n), u)) : n \in {1, 10, 100, 1000}, u \in B .. TB}
    \cup {NumStr(Sub(ShiftL(FromInt(100 * n), u), FromInt(100))) : n \in {1, 10, 100, 1000}, u \in KB .. TB}

InitNormalize ==
    /\ pc = "call normalize_size_unit"
    /\ inp \in SizeInputs
    /\ ret = None
    /\ Idle

CallNormalize ==
    /\ pc = "call normalize_size_unit"
    /\ ret' = [once |-> normalize_size_unit(inp), twice |-> None]
    /\ pc' = "call normalize_size_unit again"
    /\ UNCHANGED <<inp, runVars>>

CallNormalizeAgain ==
    /\ pc = "call normalize_size_unit again"
    /\ ret' = [ret EXCEPT !.twice = normalize_size_unit(ret.once)]
    /\ pc' = "return"
    /\ UNCHANGED <<inp, runVars>>

NextNormalize == CallNormalize \/ CallNormalizeAgain

SpecNormalize == InitNormalize /\ [][NextNormalize]_vars

\* ----------------------------------------------------- format_hours, alone
\* every count of hours up to MaxHours, and what is no count: a text, a
\* formatted duration, digits with thousands separators, a decimal, nothing
HoursInputs ==
    {IntStr(h) : h \in 0 .. MaxHours}
    \cup {Text("abc"), None, EmptyStr, CommaStr(26301), DecStr(125),
          Duration(<<<<3, "y">>, <<21, "hrs">>>>), Duration(<<<<0, "hrs">>>>)}

InitDuration ==
    /\ pc = "call format_hours"
    /\ inp \in HoursInputs
    /\ ret = None
    /\ Idle

CallDuration ==
    /\ pc = "call format_hours"
    /\ ret' = [text |-> format_hours(inp)]
    /\ pc' = "return"
    /\ UNCHANGED <<inp, runVars>>

NextDuration == CallDuration

SpecDuration == InitDuration /\ [][NextDuration]_vars

\* ------------------------------------------------ the extractors, alone
\* the outputs of smartctl -H: nothing, or a text that holds any of the words
\* PASSED, OK and FAILED, with or without the endurance indicator
HealthTexts ==
    {EmptyStr} \cup {HealthText(p, o, f, l, IF l THEN IntStr(3) ELSE None) :
                        p \in BOOLEAN, o \in BOOLEAN, f \in BOOLEAN, l \in BOOLEAN}

\* the disks the health texts are read of, on either path
HealthInputs ==
    {[path |-> "sata", probe |-> Probe(EmptyStr, h, o)] :
        h \in HealthTexts, o \in {EmptyStr, SasOutput(15000, 5000)}}
    \cup {[path |-> "nvme", probe |-> Probe(v, h, o)] :
             v \in {EmptyStr, Vendor(FALSE), Vendor(TRUE)}, h \in HealthTexts,
             o \in {EmptyStr, NvmeOutput(SizeStr(1880, 1, TB), SizeStr(205, 2, TB))}}

\* the temperatures smartctl -a prints, in Celsius or in Kelvin
Temperatures == (195 .. 205) \cup {0, 45, 273, 274, 300, MaxTemp}

TemperatureInputs ==
    {[path |-> "nvme",
      probe |-> Probe(Vendor(FALSE), HealthPassed,
                      [NvmeOutput(SizeStr(1880, 1, TB), SizeStr(205, 2, TB)) EXCEPT !.temp = t])] :
        t \in {IntStr(n) : n \in Temperatures} \cup {None}}
    \cup {[path |-> "sata",
           probe |-> Probe(EmptyStr, HealthOk,
                           [SasOutput(15000, 5000) EXCEPT !.temp = <<c, None, None, c>>])] :
             c \in {IntStr(n) : n \in Temperatures} \cup {None}}

\* what strategy i captures when its pattern matches: the first pattern of
\* each list takes thousands separators, the others digits only
Capture(i) == IF i = 1 THEN CommaStr(1000 + i) ELSE IntStr(1000 + i)

\* every set of matching strategies, for a list of n patterns
Captures(n) == {[i \in 1 .. n |-> IF i \in S THEN Capture(i) ELSE None] : S \in SUBSET (1 .. n)}

StrategyInputs ==
    {[path |-> "sata",
      probe |-> Probe(EmptyStr, HealthOk, [SasOutput(15000, 5000) EXCEPT !.hours = h])] :
        h \in Captures(SataHoursPatterns)}
    \cup {[path |-> "sata",
           probe |-> Probe(EmptyStr, HealthOk, [SasOutput(15000, 5000) EXCEPT !.cycles = c])] :
             c \in Captures(SataCyclesPatterns)}
    \cup {[path |-> "nvme",
           probe |-> Probe(Vendor(FALSE), HealthPassed,
                           [NvmeOutput(SizeStr(1880, 1, TB), SizeStr(205, 2, TB)) EXCEPT !.hours = h])] :
             h \in Captures(NvmeHoursPatterns)}

\* the error counter log: with or without the line "Non-medium error count:",
\* with a header the section patterns match or not, with rows in the regular
\* layout or not
Sections ==
    {None, Section(Marker(10, 9), None, None), Section(Marker(10, 12), Mag(150), Mag(50)),
     Section(None, Mag(150), None)}

RegularRows ==
    {<<>>, <<<<"read", 15000>>, <<"write", 5000>>>>, <<<<"read", 15000>>>>, <<<<"write", 5000>>>>}

ErrorLogInputs ==
    {[path |-> "sata",
      probe |-> Probe(EmptyStr, HealthOk,
                      [SasOutput(15000, 5000) EXCEPT
                          !.non_medium = nm, !.sec1 = s1, !.sec2 = s2, !.fallback = rows])] :
        nm \in {None, IntStr(7)}, s1 \in Sections, s2 \in Sections, rows \in RegularRows}

ExtractInputs == HealthInputs \cup TemperatureInputs \cup StrategyInputs \cup ErrorLogInputs

InitExtract ==
    /\ pc = "call extractor"
    /\ inp \in ExtractInputs
    /\ ret = None
    /\ Idle

CallExtract ==
    /\ pc = "call extractor"
    /\ ret' = [smart |-> IF inp.path = "nvme"
                         THEN get_nvme_smart_data(inp.probe.vendor_check, inp.probe.health_output,
                                                  inp.probe.output)
                         ELSE get_sata_smart_data(inp.probe.health_output, inp.probe.output)]
    /\ pc' = "return"
    /\ UNCHANGED <<inp, runVars>>

NextExtract == CallExtract

SpecExtract == InitExtract /\ [][NextExtract]_vars

\* the descriptors of midclt and lsblk: names, types and models as they
\* come, the empty string of a missing key, and null
DescriptorNames == {"sda", "sdb", "nvme0n1", "", JsonNull}
DescriptorTypes == {"HDD", "hdd", "SSD", "", JsonNull}
DescriptorModels == VirtualModels \cup {"ST4000NM0035", "Samsung SSD 980", "", JsonNull}

InitClassify ==
    /\ pc = "call classify_disk"
    /\ inp \in [name : DescriptorNames, type : DescriptorTypes, model : DescriptorModels]
    /\ ret = None
    /\ Idle

CallClassify ==
    /\ pc = "call classify_disk"
    /\ ret' = [class |-> classify_disk(inp.name, inp.type, inp.model)]
    /\ pc' = "return"
    /\ UNCHANGED <<inp, runVars>>

NextClassify == CallClassify

SpecClassify == InitClassify /\ [][NextClassify]_vars

\* a variant that asks lsblk first and midclt when lsblk lists nothing
get_disks_lsblk_first(output, h, names) ==
    LET from_lsblk == get_disks_from_lsblk(h, names)
    IN  IF from_lsblk # <<>> THEN [disks |-> from_lsblk, lsblk |-> 1]
        ELSE [disks |-> disks_of_midclt(output), lsblk |-> 1]

\* process_disk_info, lines 1093-1100: the inventory and the number of calls
\* of get_disks_from_lsblk, for an output of midclt
get_disks(output, h, names) ==
    LET from_midclt == disks_of_midclt(output)
    IN  IF from_midclt # <<>> THEN [disks |-> from_midclt, lsblk |-> 0]
        ELSE [disks |-> get_disks_from_lsblk(h, names), lsblk |-> 1]

InitDiscover ==
    /\ pc = "call get_disks"
    /\ inp \in {[host |-> h, names |-> n, output |-> o] :
                   h \in Hosts, n \in NameLists, o \in {MidcltNotJson, EmptyStr, None}}
               \cup {[host |-> h, names |-> n, output |-> MidcltList(n)] :
                        h \in {x \in Hosts : x.midclt}, n \in NameLists}
    /\ inp.output \in MidcltReplies(inp.host, inp.names)
    /\ ret = None
    /\ Idle

CallDiscover ==
    /\ pc = "call get_disks"
    /\ ret' = get_disks(inp.output, inp.host, inp.names)
    /\ pc' = "return"
    /\ UNCHANGED <<inp, runVars>>

NextDiscover == CallDiscover

SpecDiscover == InitDiscover /\ [][NextDiscover]_vars

\* -------------------------------------------------- get_pool_info, alone
\* Device names and paths are sequences of characters here, the empty
\* sequence being the empty string (and a field that is missing or null).
DigitChars == {"0", "1", "2", "3", "4", "5", "6", "7", "8", "9"}

Front(str) == SubSeq(str, 1, Len(str) - 1)

\* disk_path.split("/")[-1]
RECURSIVE LastSegment(_)
LastSegment(str) ==
    IF \A i \in DOMAIN str : str[i] # "/" THEN str
    ELSE LastSegment(Tail(str))

RECURSIVE StripDigits(_)
StripDigits(str) ==
    IF str # <<>> /\ str[Len(str)] \in DigitChars THEN StripDigits(Front(str)) ELSE str

\* re.sub(r'p?\d+$', '', disk_name)
StripPartition(str) ==
    IF str = <<>> \/ str[Len(str)] \notin DigitChars THEN str
    ELSE IF StripDigits(str) # <<>> /\ StripDigits(str)[Len(StripDigits(str))] = "p"
    THEN Front(StripDigits(str))
    ELSE StripDigits(str)

\* a node of a topology: its fields disk, path and device, and its children
Node(disk, path, device, children) ==
    [disk |-> disk, path |-> path, device |-> device, children |-> children]

\* lines 412-426 and 436-450: the path, else the device, without directory
\* and partition; the assignment is skipped when both are empty
FromPath(d, node, pool_name) ==
    IF node.path # <<>> THEN Put(d, StripPartition(LastSegment(node.path)), pool_name)
    ELSE IF node.device # <<>> THEN Put(d, StripPartition(LastSegment(node.device)), pool_name)
    ELSE d

\* lines 405-410 and 429-434: the disk field wins
Assign(d, node, pool_name) ==
    IF node.disk # <<>> THEN Put(d, node.disk, pool_name) ELSE FromPath(d, node, pool_name)

\* for child in vdev["children"]
RECURSIVE Children(_, _, _, _)
Children(d, children, i, pool_name) ==
    IF i > Len(children) THEN d
    ELSE Children(Assign(d, children[i], pool_name), children, i + 1, pool_name)

\* a variant that leaves out the vdev's own identifier when it has children
Vdev_children_only(d, vdev, pool_name) ==
    IF vdev.children # <<>> THEN Children(d, vdev.children, 1, pool_name)
    ELSE Assign(d, vdev, pool_name)

\* lines 396-450: the children of the vdev, then the vdev itself
Vdev(d, vdev, pool_name) ==
    Assign(Children(d, vdev.children, 1, pool_name), vdev, pool_name)

\* for vdev in vdevs
RECURSIVE Vdevs(_, _, _, _)
Vdevs(d, vdevs, i, pool_name) ==
    IF i > Len(vdevs) THEN d
    ELSE Vdevs(Vdev(d, vdevs[i], pool_name), vdevs, i + 1, pool_name)

\* for vdev_type, vdevs in topology.items(), the topology being the sequence
\* of its lists of vdevs (an empty list is skipped at line 391)
RECURSIVE Topology(_, _, _, _)
Topology(d, topology, i, pool_name) ==
    IF i > Len(topology) THEN d
    ELSE Topology(Vdevs(d, topology[i], 1, pool_name), topology, i + 1, pool_name)

\* for pool in pools_data: a pool without a name is skipped (line 381)
RECURSIVE PoolsData(_, _, _)
PoolsData(d, pools_data, i) ==
    IF i > Len(pools_data) THEN d
    ELSE PoolsData(IF pools_data[i].name = <<>> THEN d
                   ELSE Topology(d, pools_data[i].topology, 1, pools_data[i].name),
                   pools_data, i + 1)

\* the dict get_pool_info builds from the parsed output of midclt
disk_to_pool_of(pools_data) == PoolsData(EmptyDict, pools_data, 1)

Tank == <<"t", "a", "n", "k">>
Fast == <<"f", "a", "s", "t">>
Sda == <<"s", "d", "a">>
Sdb == <<"s", "d", "b">>
Sdc == <<"s", "d", "c">>
DevSdb1 == <<"/", "d", "e", "v", "/", "s", "d", "b", "1">>
Nvme0n1p2 == <<"n", "v", "m", "e", "0", "n", "1", "p", "2">>
Nvme0n1 == <<"n", "v", "m", "e", "0", "n", "1">>

\* disks: by name, by path, by device, and a node that names nothing
Leaves ==
    {Node(Sda, <<>>, <<>>, <<>>), Node(<<>>, DevSdb1, <<>>, <<>>),
     Node(<<>>, <<>>, Nvme0n1p2, <<>>), Node(Sdc, DevSdb1, <<>>, <<>>),
     Node(<<>>, <<>>, <<>>, <<>>)}

\* a child that is itself a group, as the REPLACING and SPARE nodes of a
\* pool under repair are
Replacing == Node(<<>>, <<>>, <<>>, <<Node(Sdc, <<>>, <<>>, <<>>), Node(<<>>, DevSdb1, <<>>, <<>>)>>)

VdevNodes ==
    Leaves
    \cup {Node(<<>>, <<>>, <<>>, <<a, b>>) : a \in Leaves, b \in Leaves \cup {Replacing}}
    \cup {Node(Sda, <<>>, <<>>, <<b>>) : b \in Leaves}

\* topologies of one or two lists of vdevs, such as data and cache
Topologies ==
    {<<<<v>>>> : v \in VdevNodes}
    \cup {<<<<v>>, <<>>, <<w>>>> : v \in VdevNodes, w \in {Node(<<>>, <<>>, Nvme0n1, <<>>)}}

PoolRecord(name, topology) == [name |-> name, topology |-> topology]

PoolsInputs ==
    {<<PoolRecord(Tank, t)>> : t \in Topologies}
    \cup {<<PoolRecord(<<>>, t), PoolRecord(Fast, u)>> :
            t \in {<<<<Node(Sda, <<>>, <<>>, <<>>)>>>>}, u \in Topologies}

InitPools ==
    /\ pc = "call get_pool_info"
    /\ inp \in PoolsInputs
    /\ ret = None
    /\ Idle

CallPools ==
    /\ pc = "call get_pool_info"
    /\ ret' = [disk_to_pool |-> disk_to_pool_of(inp)]
    /\ pc' = "return"
    /\ UNCHANGED <<inp, runVars>>

NextPools == CallPools

SpecPools == InitPools /\ [][NextPools]_vars

\* ------------------------------------------ get_pool_name_from_zfs, alone
\* The output of zpool status is the sequence of its lines, a line (stripped)
\* the sequence of its words, a word a sequence of characters.
StartsWith(str, prefix) ==
    Len(prefix) <= Len(str) /\ SubSeq(str, 1, Len(prefix)) = prefix

\* sub in word
Within(sub, word) ==
    \E i \in 1 .. (Len(word) - Len(sub) + 1) : SubSeq(word, i, i + Len(sub) - 1) = sub

\* sub in line, for a sub without blanks
InLine(sub, line) == \E w \in DOMAIN line : Within(sub, line[w])

PoolColon == <<"p", "o", "o", "l", ":">>
StateColon == <<"s", "t", "a", "t", "e", ":">>
ScanColon == <<"s", "c", "a", "n", ":">>
ConfigColon == <<"c", "o", "n", "f", "i", "g", ":">>
NAME == <<"N", "A", "M", "E">>
Mirror == <<"m", "i", "r", "r", "o", "r">>
Raidz1 == <<"r", "a", "i", "d", "z", "1">>
Raidz2 == <<"r", "a", "i", "d", "z", "2">>
Raidz3 == <<"r", "a", "i", "d", "z", "3">>
VdevWords == {Mirror, Raidz1, Raidz2, Raidz3}

\* line.startswith('pool:')
IsPoolLine(line) == line # <<>> /\ StartsWith(line[1], PoolColon)

\* line.split(':', 1)[1].strip(), for a name without blanks
PoolNameOf(line) ==
    IF Len(line[1]) > Len(PoolColon) THEN SubSeq(line[1], Len(PoolColon) + 1, Len(line[1]))
    ELSE IF Len(line) >= 2 THEN line[2]
    ELSE <<>>

\* line 481
Skipped(line, current_pool) ==
    \/ current_pool = <<>>
    \/ InLine(StateColon, line) \/ InLine(ScanColon, line) \/ InLine(ConfigColon, line)
    \/ line = <<>>
    \/ StartsWith(line[1], NAME)

\* line 486
IsDiskLine(line, current_pool) ==
    ~StartsWith(line[1], current_pool) /\ line[1] \notin VdevWords

\* lines 474-493, from line i on; st holds disk_to_pool and current_pool
RECURSIVE StatusLines(_, _, _)
StatusLines(st, lines, i) ==
    IF i > Len(lines) THEN st.disk_to_pool
    ELSE IF IsPoolLine(lines[i])
    THEN StatusLines([st EXCEPT !.current_pool = PoolNameOf(lines[i])], lines, i + 1)
    ELSE IF Skipped(lines[i], st.current_pool) \/ ~IsDiskLine(lines[i], st.current_pool)
    THEN StatusLines(st, lines, i + 1)
    ELSE StatusLines([st EXCEPT !.disk_to_pool =
                         Put(@, LastSegment(lines[i][1]), st.current_pool)],
                     lines, i + 1)

\* the output of zpool status: nothing (None or ""), or lines
NoStatus == [kind |-> "None"]
StatusText(lines) == [kind |-> "text", lines |-> lines]

\* the dict get_pool_name_from_zfs builds from the output of zpool status
disk_to_pool_of_status(output) ==
    IF output.kind # "text" \/ output.lines = <<>> THEN EmptyDict
    ELSE StatusLines([disk_to_pool |-> EmptyDict, current_pool |-> <<>>], output.lines, 1)

\* the lines zpool status prints: headers, the table of a pool with its
\* vdev labels, its disks and its sections, and the closing line
Mirror0 == Mirror \o <<"-", "0">>
Raidz11 == Raidz1 \o <<"-", "1">>
Tank2 == Tank \o <<"2">>
Logs == <<"l", "o", "g", "s">>
ErrorsColon == <<"e", "r", "r", "o", "r", "s", ":">>
StatusColon == <<"s", "t", "a", "t", "u", "s", ":">>
GptidDisk == <<"g", "p", "t", "i", "d", "/", "d", "1">>

DeviceWords == {<<"a", "d", "a", "0">>, Sdb, Tank2, GptidDisk}

StatusLineSet ==
    {<<StateColon, <<"O", "N", "L", "I", "N", "E">>>>, <<ScanColon>>, <<ConfigColon>>, <<>>,
     <<NAME, <<"S", "T", "A", "T", "E">>>>, <<Tank>>, <<Mirror>>, <<Mirror0>>, <<Raidz2>>,
     <<Raidz11>>, <<Logs>>, <<ErrorsColon, <<"N", "o">>>>, <<StatusColon, <<"O", "n", "e">>>>,
     <<PoolColon, Fast>>}
    \cup {<<w, <<"O", "N", "L", "I", "N", "E">>>> : w \in DeviceWords}

StatusInputs ==
    {StatusText(<<<<PoolColon, Tank>>, a, b>>) : a \in StatusLineSet, b \in StatusLineSet}
    \cup {StatusText(<<a, <<PoolColon, Tank>>, b>>) : a \in StatusLineSet, b \in StatusLineSet}

InitStatus ==
    /\ pc = "call get_pool_name_from_zfs"
    /\ inp \in StatusInputs
    /\ ret = None
    /\ Idle

CallStatus ==
    /\ pc = "call get_pool_name_from_zfs"
    /\ ret' = [disk_to_pool |-> disk_to_pool_of_status(inp)]
    /\ pc' = "return"
    /\ UNCHANGED <<inp, runVars>>

NextStatus == CallStatus

SpecStatus == InitStatus /\ [][NextStatus]_vars

\* ------------------------------------- the pool map of a run, lines 1102-1109
\* what midclt call pool.query gives: nothing (a failed call or no output),
\* text that is no JSON, JSON that the loops cannot walk (a pool whose
\* topology is null raises AttributeError), or a list of pools; every
\* exception is caught at line 457 and the result is then {}
PoolReply(kind) == [kind |-> kind, pools |-> <<>>]
PoolList(pools_data) == [kind |-> "pools", pools |-> pools_data]

get_pool_info_of(reply) ==
    IF reply.kind = "pools" THEN disk_to_pool_of(reply.pools) ELSE EmptyDict

\* a variant that asks zpool status first
resolve_pools_status_first(reply, status) ==
    IF disk_to_pool_of_status(status) # EmptyDict
    THEN [disk_to_pool |-> disk_to_pool_of_status(status), zfs |-> TRUE]
    ELSE [disk_to_pool |-> get_pool_info_of(reply), zfs |-> TRUE]

\* disk_to_pool = get_pool_info(); if not disk_to_pool: ... get_pool_name_from_zfs();
\* zfs tells whether the second was called
resolve_pools(reply, status) ==
    IF get_pool_info_of(reply) = EmptyDict
    THEN [disk_to_pool |-> disk_to_pool_of_status(status), zfs |-> TRUE]
    ELSE [disk_to_pool |-> get_pool_info_of(reply), zfs |-> FALSE]

Ada0 == <<"a", "d", "a", "0">>
ONLINE == <<"O", "N", "L", "I", "N", "E">>
PoolTank == <<PoolColon, Tank>>

PoolReplies ==
    {PoolReply("None"), PoolReply("empty"), PoolReply("garbage"), PoolReply("malformed"),
     PoolList(<<>>)}
    \cup {PoolList(<<PoolRecord(n, <<<<v>>>>)>>) :
            n \in {Tank, <<>>}, v \in Leaves \cup {Node(<<>>, <<>>, <<>>, <<Node(Sdb, <<>>, <<>>, <<>>)>>)}}
    \cup {PoolList(<<PoolRecord(Tank, <<>>)>>), PoolList(<<PoolRecord(Tank, <<<<>>>>)>>)}

Statuses ==
    {NoStatus, StatusText(<<PoolTank, <<Ada0, ONLINE>>>>),
     StatusText(<<PoolTank>>), StatusText(<<<<Ada0, ONLINE>>>>),
     StatusText(<<<<PoolColon, Fast>>, <<ConfigColon>>, <<>>, <<Sdb, ONLINE>>, <<Sdc, ONLINE>>>>)}

InitResolve ==
    /\ pc = "call get_pool_info"
    /\ inp \in [reply : PoolReplies, status : Statuses]
    /\ ret = None
    /\ Idle

CallResolve ==
    /\ pc = "call get_pool_info"
    /\ ret' = resolve_pools(inp.reply, inp.status)
    /\ pc' = "return"
    /\ UNCHANGED <<inp, runVars>>

NextResolve == CallResolve

SpecResolve == InitResolve /\ [][NextResolve]_vars

\* ----------------------------------------------------------------- pools
\* the pools of the host: sda is in tank, nvme0n1 in fast, sdb in none
HostPools == [sda |-> Text("tank"), nvme0n1 |-> Text("fast")]
Unassigned == Text("unassigned")

get_pool_info(h) == IF h.midclt THEN HostPools ELSE EmptyDict
get_pool_name_from_zfs(h) == IF h.zpool THEN HostPools ELSE EmptyDict

\* ------------------------------------------------- the loop body, per disk
\* the extractor the class selects, on the outputs of its commands
ExtractSmart(device_class, probe) ==
    IF device_class = "NVME_SSD"
    THEN get_nvme_smart_data(probe.vendor_check, probe.health_output, probe.output)
    ELSE IF device_class = "VIRTUAL"
    THEN [Type |-> Text("virtual device"), Smart_Status |-> NA]
    ELSE get_sata_smart_data(probe.health_output, probe.output)

\* what the extractor can return for a disk of the class
SataExtracts == {ExtractSmart("SAS_HDD", probe) : probe \in SataProbes}
NvmeExtracts == {ExtractSmart("NVME_SSD", probe) : probe \in NvmeProbes}
VirtualExtracts == {ExtractSmart("VIRTUAL", NoData)}

Extracts(device_class) ==
    IF device_class = "NVME_SSD" THEN NvmeExtracts
    ELSE IF device_class = "VIRTUAL" THEN VirtualExtracts
    ELSE SataExtracts

\* previous_data.get("disks", {}) and previous_data.get("timestamp", "")
previous_disks_of(data) == Get(data.m, "disks", PyDict(EmptyDict))
previous_time_of(data) == Get(data.m, "timestamp", EmptyStr)

\* key in obj: a TypeError on None; our strings and the empty list hold no key
InRaises(obj) == obj.kind = "None"
In(key, obj) == obj.kind = "dict" /\ key \in DOMAIN obj.m

\* lines 1183-1196 raise: previous_disks has no .get, or prev_disk is None
IncrementRaises(smart, prev_disks, disk_name) ==
    \/ prev_disks.kind # "dict"
    \/ /\ prev_disks.kind = "dict"
       /\ InRaises(Get(prev_disks.m, disk_name, PyDict(EmptyDict)))
       /\ ("Data_Read" \in DOMAIN smart \/ "Data_Written" \in DOMAIN smart)

\* a variant that takes a missing baseline value for zero
Increment_from_zero(attr, smart, prev_disk) ==
    IF attr \in DOMAIN smart
    THEN IF In(attr, prev_disk) THEN calculate_size_increment(prev_disk.m[attr], smart[attr])
         ELSE smart[attr]
    ELSE NA

Increment(attr, smart, prev_disk) ==
    IF attr \in DOMAIN smart /\ In(attr, prev_disk)
    THEN calculate_size_increment(prev_disk.m[attr], smart[attr])
    ELSE NA

\* a variant that appends what the extractor found outside the schema
AttrValues_all(device_class, smart) ==
    LET attributes == DISK_TYPE_ATTRIBUTES(device_class)
        extra == SetToSeq(DOMAIN smart \ Range(attributes))
    IN  [i \in DOMAIN attributes |-> format_value(Get(smart, attributes[i], NA), attributes[i])]
        \o [i \in DOMAIN extra |-> smart[extra[i]]]

\* the values of the class's attributes, formatted
AttrValues(device_class, smart) ==
    LET attributes == DISK_TYPE_ATTRIBUTES(device_class)
    IN  [i \in DOMAIN attributes |-> format_value(Get(smart, attributes[i], NA), attributes[i])]

Row(disk, pools, device_class, smart, prev_disk) ==
    <<Text(disk.name), Text(disk.type), Text(disk.model), format_size(disk.size),
      Get(pools, disk.name, Unassigned)>>
    \o AttrValues(device_class, smart)
    \o <<Increment("Data_Read", smart, prev_disk), Increment("Data_Written", smart, prev_disk)>>

\* current_disk_data[disk_name]: the formatted Data_Read and Data_Written of
\* the classes that have them
Saved(device_class, smart) ==
    LET attributes == DISK_TYPE_ATTRIBUTES(device_class)
        kept == Range(attributes) \cap {"Data_Read", "Data_Written"}
    IN  PyDict([a \in kept |-> format_value(Get(smart, a, NA), a)])

\* ---------------------------------------------------------------- sorting
Rank(name) == CHOOSE i \in DOMAIN SortedNames : SortedNames[i] = name

RECURSIVE SortRows(_)
SortRows(rows) ==
    IF rows = <<>> THEN <<>>
    ELSE LET least == CHOOSE i \in DOMAIN rows :
                        \A j \in DOMAIN rows :
                            \/ Rank(rows[i].disk_name) < Rank(rows[j].disk_name)
                            \/ (Rank(rows[i].disk_name) = Rank(rows[j].disk_name) /\ i <= j)
             rest == [k \in 1 .. (Len(rows) - 1) |-> IF k < least THEN rows[k] ELSE rows[k + 1]]
         IN  <<rows[least]>> \o SortRows(rest)

\* ----------------------------------------------------------------- tables
display_order == <<"SAS_SSD", "SAS_HDD", "NVME_SSD", "VIRTUAL">>
\* the distinct display names of DISK_TYPE_ATTRIBUTES
AllAttributes == 13
FixedColumns == 5

\* a row padded with "N/A" or cut to the length of the headers
FitRow(row, width) ==
    [i \in 1 .. width |-> IF i <= Len(row) THEN row[i] ELSE NA]

RowsOfClass(rows, device_class) ==
    LET OfClass(e) == e.device_class = device_class
    IN  SelectSeq(rows, OfClass)

RECURSIVE GroupedTables(_, _)
GroupedTables(rows, k) ==
    IF k > Len(display_order) THEN <<>>
    ELSE LET device_class == display_order[k]
             mine == RowsOfClass(rows, device_class)
             width == FixedColumns + Len(DISK_TYPE_ATTRIBUTES(device_class))
             table == [title |-> device_class,
                       rows |-> [i \in DOMAIN mine |-> FitRow(mine[i].row, width)]]
         IN  (IF mine # <<>> THEN <<table>> ELSE <<>>) \o GroupedTables(rows, k + 1)

DiskTables(rows, no_group) ==
    IF no_group
    THEN <<[title |-> "all",
            rows |-> [i \in DOMAIN rows |-> FitRow(rows[i].row, FixedColumns + AllAttributes)]]>>
    ELSE GroupedTables(rows, 1)

\* a variant that takes the counters themselves for increments
HasIncrement_of_counters(smart) ==
    Get(smart, "Data_Read", NA) # NA \/ Get(smart, "Data_Written", NA) # NA

\* lines 1321-1325: the extractor's result holds an increment
HasIncrement(smart) ==
    Get(smart, "Read_Increment", NA) # NA \/ Get(smart, "Write_Increment", NA) # NA

\* lines 1327-1337: the increment rows of the disks that have one
IncrementRows(rows, has) ==
    LET Shown(e) == has[e.disk_name]
        shown == SelectSeq(rows, Shown)
    IN  [i \in DOMAIN shown |-> shown[i].disk_name]

IncrementTables(incr_rows, previous_time) ==
    IF Truthy(previous_time)
    THEN IF incr_rows = <<>> THEN <<[title |-> "no increment data", rows |-> <<>>]>>
         ELSE <<[title |-> "increments", rows |-> incr_rows]>>
    ELSE <<[title |-> "no previous data", rows |-> <<>>]>>

\* ------------------------------------------------------------ DATA_FILE
T0 == TimeStr(0)

Member(k, v) == <<k, v>>

\* files the program tolerates: none, no JSON, and objects with partial
\* records and extra keys
OldFileNoTime ==
    FileJson(JObject(<<
        Member("disks", JObject(<<
            Member("sda", JObject(<<Member("Data_Read", JString(SizeStr(100, 2, TB)))>>)),
            Member("sdz", JObject(<<Member("Data_Read", JString(SizeStr(500, 2, GB))),
                                    Member("Data_Written", JString(SizeStr(500, 2, GB)))>>))>>))>>))

OldFileExtraKeys ==
    FileJson(JObject(<<
        Member("timestamp", JString(T0)),
        Member("version", JString(Text("1"))),
        Member("disks", JObject(<<
            Member("sda", JObject(<<Member("Data_Read", JString(SizeStr(15000, 0, GB))),
                                    Member("Data_Written", JString(NA)),
                                    Member("Serial", JString(Text("Z1")))>>)),
            Member("nvme0n1", JObject(<<Member("Data_Read", JString(SizeStr(1880, 1, TB))),
                                        Member("Data_Written", JString(SizeStr(1000, 0, GB)))>>))>>))>>))

OldFileNoDisks == FileJson(JObject(<<Member("timestamp", JString(T0))>>))

ToleratedFiles == {FileAbsent, FileGarbage, OldFileNoTime, OldFileExtraKeys, OldFileNoDisks}

\* files of another shape: JSON documents that are no object, or whose disks
\* member or disk records are none
OtherFiles ==
    {FileJson(JArray),
     FileJson(JNull),
     FileJson(JObject(<<Member("timestamp", JString(T0)), Member("disks", JNull)>>)),
     FileJson(JObject(<<Member("timestamp", JString(T0)),
                        Member("disks", JObject(<<Member("sda", JNull),
                                                  Member("nvme0n1", JNull)>>))>>))}

\* ---------------------------------------------------------------- the run
\* the exit status of the process: main's return value, 1 after a traceback
Status(n) == [kind |-> "status", n |-> n]

NoCalls == [loads |-> 0, saves |-> 0, pools |-> 0, probes |-> 0, deltas |-> 0,
            retrievals |-> EmptyDict]

\* a variant of the second pass that reuses what the main pass extracted
Retrieved_once(counts, disk_name, device_class) ==
    IF device_class = "VIRTUAL" \/ disk_name \in DOMAIN counts THEN counts
    ELSE Put(counts, disk_name, 1)

\* the extractor runs smartctl on the disk: lines 1157-1162 and 1315-1319,
\* for every class but VIRTUAL
Retrieved(counts, disk_name, device_class) ==
    IF device_class = "VIRTUAL" THEN counts
    ELSE Put(counts, disk_name, Get(counts, disk_name, 0) + 1)

\* the second pass over all_disk_data, from entry i on
RECURSIVE RetrievedAgain(_, _, _)
RetrievedAgain(counts, rows, i) ==
    IF i > Len(rows) THEN counts
    ELSE RetrievedAgain(Retrieved(counts, rows[i].disk_name, rows[i].device_class), rows, i + 1)
SaveOutcomes == {"ok", "unwritable", "truncated"}

\* the locals of a run before it starts
Fresh ==
    /\ controller_tables = <<>> /\ disks = <<>> /\ disk_to_pool = EmptyDict
    /\ previous_data = None /\ current_disk_data = EmptyDict /\ all_disk_data = <<>>
    /\ smart_data = <<>> /\ increment_disk_data = <<>> /\ output_tables = <<>>
    /\ exit_code = None /\ calls = NoCalls /\ save_outcome = "none"

InitRun(files) ==
    /\ pc = "main"
    /\ inp = None /\ ret = None
    /\ host \in Hosts
    /\ file \in files
    /\ file0 = file
    /\ clock = 1
    /\ Fresh

Init == InitRun(ToleratedFiles)
InitAnyFile == InitRun(ToleratedFiles \cup OtherFiles)

\* main, lines 1396-1419: without smartctl the run ends with status 1
Main ==
    /\ pc = "main"
    /\ IF host.smartctl
       THEN pc' = "controllers" /\ UNCHANGED exit_code
       ELSE pc' = "done" /\ exit_code' = Status(1)
    /\ UNCHANGED <<inp, ret, host, file, clock, controller_tables, disks, disk_to_pool,
                   previous_data, current_disk_data, all_disk_data, smart_data,
                   increment_disk_data, output_tables, calls, file0, save_outcome>>

\* main, line 1422
Controllers ==
    /\ pc = "controllers"
    /\ controller_tables' = process_controller_info(host)
    /\ pc' = "inventory"
    /\ UNCHANGED <<inp, ret, host, file, clock, disks, disk_to_pool,
                   previous_data, current_disk_data, all_disk_data, smart_data,
                   increment_disk_data, output_tables, exit_code, calls, file0, save_outcome>>

\* process_disk_info, lines 1078-1089, and main's return
ControllerOnly ==
    /\ pc = "inventory"
    /\ host.controller_only
    /\ output_tables' = <<>>
    /\ exit_code' = Status(0)
    /\ pc' = "done"
    /\ UNCHANGED <<inp, ret, host, file, clock, controller_tables, disks, disk_to_pool,
                   previous_data, current_disk_data, all_disk_data, smart_data,
                   increment_disk_data, calls, file0, save_outcome>>

\* a variant that goes on with an empty inventory
Discover_continues ==
    /\ pc = "inventory"
    /\ ~host.controller_only
    /\ \E names \in NameLists :
         LET from_midclt == get_disks_from_midclt(host, names)
         IN  disks' = IF from_midclt # <<>> THEN from_midclt
                      ELSE get_disks_from_lsblk(host, names)
    /\ pc' = "pools"
    /\ UNCHANGED <<inp, ret, host, file, clock, controller_tables, disk_to_pool,
                   previous_data, current_disk_data, all_disk_data, smart_data,
                   increment_disk_data, output_tables, exit_code, calls, file0, save_outcome>>

\* process_disk_info, lines 1091-1100
Discover ==
    /\ pc = "inventory"
    /\ ~host.controller_only
    /\ \E names \in NameLists :
         LET from_midclt == get_disks_from_midclt(host, names)
             found == IF from_midclt # <<>> THEN from_midclt
                      ELSE get_disks_from_lsblk(host, names)
         IN  /\ disks' = found
             /\ IF found = <<>>
                THEN output_tables' = <<>> /\ exit_code' = Status(0) /\ pc' = "done"
                ELSE pc' = "pools" /\ UNCHANGED <<output_tables, exit_code>>
    /\ UNCHANGED <<inp, ret, host, file, clock, controller_tables, disk_to_pool,
                   previous_data, current_disk_data, all_disk_data, smart_data,
                   increment_disk_data, calls, file0, save_outcome>>

\* process_disk_info, lines 1102-1109
Pools ==
    /\ pc = "pools"
    /\ LET from_midclt == get_pool_info(host)
       IN  disk_to_pool' = IF from_midclt # EmptyDict THEN from_midclt
                           ELSE get_pool_name_from_zfs(host)
    /\ calls' = [calls EXCEPT !.pools = @ + 1]
    /\ pc' = "load"
    /\ UNCHANGED <<inp, ret, host, file, clock, controller_tables, disks,
                   previous_data, current_disk_data, all_disk_data, smart_data,
                   increment_disk_data, output_tables, exit_code, file0, save_outcome>>

\* process_disk_info, lines 1111-1115: .get of anything but a dict raises
Load ==
    /\ pc = "load"
    /\ LET data == load_previous_disk_data(file)
       IN  /\ previous_data' = data
           /\ IF data.kind = "dict"
              THEN pc' = "loop" /\ UNCHANGED exit_code
              ELSE pc' = "crashed" /\ exit_code' = Status(1)
    /\ calls' = [calls EXCEPT !.loads = @ + 1]
    /\ UNCHANGED <<inp, ret, host, file, clock, controller_tables, disks, disk_to_pool,
                   current_disk_data, all_disk_data, smart_data,
                   increment_disk_data, output_tables, file0, save_outcome>>

\* a variant with save_disk_data inside the loop, after every disk
Process_saving(disk, device_class, smart, previous_disks) ==
    IF IncrementRaises(smart, previous_disks, disk.name)
    THEN /\ pc' = "crashed"
         /\ exit_code' = Status(1)
         /\ calls' = [calls EXCEPT !.probes = @ + 1,
                                   !.retrievals = Retrieved(@, disk.name, device_class)]
         /\ UNCHANGED <<current_disk_data, all_disk_data, smart_data, file, save_outcome>>
    ELSE /\ all_disk_data' = Append(all_disk_data,
               [device_class |-> device_class, disk_name |-> disk.name,
                row |-> Row(disk, disk_to_pool, device_class, smart,
                            Get(previous_disks.m, disk.name, PyDict(EmptyDict)))])
         /\ current_disk_data' = Put(current_disk_data, disk.name, Saved(device_class, smart))
         /\ smart_data' = Append(smart_data, smart)
         /\ calls' = [calls EXCEPT !.probes = @ + 1, !.deltas = @ + 1, !.saves = @ + 1,
                                   !.retrievals = Retrieved(@, disk.name, device_class)]
         /\ file' = save_disk_data(file, current_disk_data', clock, "ok")
         /\ save_outcome' = "ok"
         /\ UNCHANGED <<pc, exit_code>>

\* process_disk_info, lines 1164-1199, with the extractor's result
Process(disk, device_class, smart, previous_disks) ==
    IF IncrementRaises(smart, previous_disks, disk.name)
    THEN /\ pc' = "crashed"
         /\ exit_code' = Status(1)
         /\ calls' = [calls EXCEPT !.probes = @ + 1,
                                   !.retrievals = Retrieved(@, disk.name, device_class)]
         /\ UNCHANGED <<current_disk_data, all_disk_data, smart_data, file, save_outcome>>
    ELSE /\ all_disk_data' = Append(all_disk_data,
               [device_class |-> device_class, disk_name |-> disk.name,
                row |-> Row(disk, disk_to_pool, device_class, smart,
                            Get(previous_disks.m, disk.name, PyDict(EmptyDict)))])
         /\ current_disk_data' = Put(current_disk_data, disk.name, Saved(device_class, smart))
         /\ smart_data' = Append(smart_data, smart)
         /\ calls' = [calls EXCEPT !.probes = @ + 1, !.deltas = @ + 1,
                                   !.retrievals = Retrieved(@, disk.name, device_class)]
         /\ UNCHANGED <<pc, exit_code, file, save_outcome>>

ClassOf(disk) == classify_disk(disk.name, disk.type, disk.model)

\* process_disk_info, lines 1141-1199: one pass of the loop
DiskStep ==
    /\ pc = "loop"
    /\ Len(all_disk_data) < Len(disks)
    /\ \E smart \in Extracts(ClassOf(disks[Len(all_disk_data) + 1])) :
         Process(disks[Len(all_disk_data) + 1],
                 ClassOf(disks[Len(all_disk_data) + 1]),
                 smart,
                 previous_disks_of(previous_data))
    /\ UNCHANGED <<inp, ret, host, clock, controller_tables, disks, disk_to_pool,
                   previous_data, increment_disk_data, output_tables, file0>>

\* a variant in which a save that fails ends the run
Save_fatal ==
    /\ pc = "loop"
    /\ Len(all_disk_data) = Len(disks)
    /\ \E outcome \in SaveOutcomes :
         /\ file' = save_disk_data(file, current_disk_data, clock, outcome)
         /\ save_outcome' = outcome
         /\ IF outcome = "ok"
            THEN pc' = "report" /\ all_disk_data' = SortRows(all_disk_data) /\ UNCHANGED exit_code
            ELSE pc' = "crashed" /\ exit_code' = Status(1) /\ UNCHANGED all_disk_data
    /\ calls' = [calls EXCEPT !.saves = @ + 1]
    /\ UNCHANGED <<inp, ret, host, clock, controller_tables, disks, disk_to_pool,
                   previous_data, current_disk_data, smart_data,
                   increment_disk_data, output_tables, file0>>

\* process_disk_info, lines 1201-1209: save_disk_data and the sort by name
Save ==
    /\ pc = "loop"
    /\ Len(all_disk_data) = Len(disks)
    /\ \E outcome \in SaveOutcomes :
         /\ file' = save_disk_data(file, current_disk_data, clock, outcome)
         /\ save_outcome' = outcome
    /\ calls' = [calls EXCEPT !.saves = @ + 1]
    /\ all_disk_data' = SortRows(all_disk_data)
    /\ pc' = "report"
    /\ UNCHANGED <<inp, ret, host, clock, controller_tables, disks, disk_to_pool,
                   previous_data, current_disk_data, smart_data,
                   increment_disk_data, output_tables, exit_code, file0>>

\* what the second pass can find for a disk: it runs the extractor again
\* (lines 1315-1319), on whatever smartctl prints then
SecondPass(device_class) ==
    IF device_class = "VIRTUAL" THEN {HasIncrement(EmptyDict)}
    ELSE {HasIncrement(smart) : smart \in Extracts(device_class)}

\* process_disk_info, lines 1211-1394, and main's return
Report ==
    /\ pc = "report"
    /\ LET previous_time == previous_time_of(previous_data)
           names == {all_disk_data[i].disk_name : i \in DOMAIN all_disk_data}
           class(n) == (CHOOSE e \in Range(all_disk_data) : e.disk_name = n).device_class
       IN  /\ IF Truthy(previous_time)
              THEN \E has \in [names -> BOOLEAN] :
                     /\ \A n \in names : has[n] \in SecondPass(class(n))
                     /\ increment_disk_data' = IncrementRows(all_disk_data, has)
                     /\ calls' = [calls EXCEPT !.probes = @ + Len(all_disk_data),
                                               !.retrievals = RetrievedAgain(@, all_disk_data, 1)]
              ELSE UNCHANGED <<increment_disk_data, calls>>
           /\ output_tables' = DiskTables(all_disk_data, host.no_group)
                               \o IncrementTables(increment_disk_data', previous_time)
    /\ exit_code' = Status(0)
    /\ pc' = "done"
    /\ UNCHANGED <<inp, ret, host, file, clock, controller_tables, disks, disk_to_pool,
                   previous_data, current_disk_data, all_disk_data, smart_data,
                   file0, save_outcome>>

\* the next invocation of the program, on the same host
NextRun ==
    /\ pc \in {"done", "crashed"}
    /\ clock < MaxRuns
    /\ clock' = clock + 1
    /\ pc' = "main"
    /\ file0' = file
    /\ controller_tables' = <<>> /\ disks' = <<>> /\ disk_to_pool' = EmptyDict
    /\ previous_data' = None /\ current_disk_data' = EmptyDict /\ all_disk_data' = <<>>
    /\ smart_data' = <<>> /\ increment_disk_data' = <<>> /\ output_tables' = <<>>
    /\ exit_code' = None /\ calls' = NoCalls /\ save_outcome' = "none"
    /\ UNCHANGED <<inp, ret, host, file>>

Next ==
    \/ Main
    \/ Controllers
    \/ ControllerOnly
    \/ Discover
    \/ Pools
    \/ Load
    \/ DiskStep
    \/ Save
    \/ Report
    \/ NextRun

Spec == Init /\ [][Next]_vars

SpecAnyFile == InitAnyFile /\ [][Next]_vars

\* ------------------------------------------- save_disk_data then load
\* the records of a disk and the maps of disks to records
StoredValues == {NA, SizeStr(15000, 0, GB)}
Records == {PyDict(EmptyDict)}
             \cup {PyDict([Data_Read |-> r, Data_Written |-> w]) : r \in StoredValues, w \in StoredValues}
Maps == UNION {[names -> Records] : names \in SUBSET {"sda", "nvme0n1"}}

InitRoundTrip ==
    /\ pc = "call save"
    /\ inp \in {PyDict(m) : m \in Maps}
    /\ ret = None
    /\ host = None
    /\ file \in ToleratedFiles \cup OtherFiles
    /\ file0 = file
    /\ clock \in 1 .. MaxRuns
    /\ Fresh

CallSave ==
    /\ pc = "call save"
    /\ \E outcome \in SaveOutcomes :
         /\ file' = save_disk_data(file, inp.m, clock, outcome)
         /\ save_outcome' = outcome
    /\ pc' = "call load"
    /\ UNCHANGED <<inp, ret, host, clock, controller_tables, disks, disk_to_pool,
                   previous_data, current_disk_data, all_disk_data, smart_data,
                   increment_disk_data, output_tables, exit_code, calls, file0>>

CallLoad ==
    /\ pc = "call load"
    /\ ret' = load_previous_disk_data(file)
    /\ pc' = "return"
    /\ UNCHANGED <<inp, runVars>>

NextRoundTrip == CallSave \/ CallLoad

SpecRoundTrip == InitRoundTrip /\ [][NextRoundTrip]_vars

\* ================================================================ properties

\* bytes(x) < bytes(y) for labelled sizes, from mantissas and units alone: with
\* mantissas below 1024 * 1024 hundredths, a size two or more units up is the
\* larger one unless it is zero
SmallerBytes(x, y) ==
    IF x.unit = y.unit THEN x.h < y.h
    ELSE IF x.unit < y.unit
    THEN y.h > 0 /\ (y.unit - x.unit >= 2 \/ x.h < Base * y.h)
    ELSE ~(x.h > 0 /\ (x.unit - y.unit >= 2 \/ y.h < Base * x.h)) /\ ~(x.h = 0 /\ y.h = 0)

SameBytes(x, y) == ~SmallerBytes(x, y) /\ ~SmallerBytes(y, x)

\* C1: for every pair of parseable sizes (previous p, current c) the delta is
\* the reset marker exactly when bytes(c) < bytes(p); otherwise it is
\* normalize_size_unit(bytes(c) - bytes(p)), a size that is not negative, and
\* the zero size when c and p are the same amount.  Previous "10 TB", current
\* "2 TB" gives the reset marker; previous "1.00 GB", current "3.00 GB" gives
\* "2.00 GB".
C1_DeltaResetOrDifference ==
    (pc = "return" /\ inp[1].kind = "size" /\ inp[2].kind = "size") =>
        LET p == inp[1]
            c == inp[2]
        IN  /\ (ret = RESET) <=> SmallerBytes(c, p)
            /\ ~SmallerBytes(c, p) =>
                 /\ ret = normalize_size_unit(
                            NumStr(Sub(parse_size_to_bytes(c).v, parse_size_to_bytes(p).v)))
                 /\ ret.kind = "size" /\ ret.h >= 0
            /\ SameBytes(c, p) => ret = SizeStr(0, 2, B)
            /\ (p = SizeStr(1000, 0, TB) /\ c = SizeStr(200, 0, TB)) => ret = RESET
            /\ (p = SizeStr(100, 2, GB) /\ c = SizeStr(300, 2, GB)) => ret = SizeStr(200, 2, GB)

C1_Witness ==
    /\ pc = "return"
    /\ inp = <<SizeStr(1000, 0, TB), SizeStr(200, 0, TB)>>
    /\ ret = RESET

\* ---------------------------------------------------- reading the rows
\* the extractor's result for the disk of a row, and the row's two deltas
IndexOf(name) == CHOOSE k \in DOMAIN disks : disks[k].name = name
SmartOf(e) == smart_data[IndexOf(e.disk_name)]
ReadDelta(e) == e.row[Len(e.row) - 1]
WriteDelta(e) == e.row[Len(e.row)]
DeltaOf(e, attr) == IF attr = "Data_Read" THEN ReadDelta(e) ELSE WriteDelta(e)
Counters == {"Data_Read", "Data_Written"}

\* the value the loaded snapshot holds for a disk and an attribute, None if
\* it holds none
StoredValue(name, attr) ==
    IF previous_data.kind # "dict" THEN None
    ELSE LET ds == previous_disks_of(previous_data)
         IN  IF ds.kind # "dict" \/ name \notin DOMAIN ds.m THEN None
             ELSE IF ds.m[name].kind # "dict" \/ attr \notin DOMAIN ds.m[name].m THEN None
             ELSE ds.m[name].m[attr]

CurrentValue(e, attr) == Get(SmartOf(e), attr, None)
Parseable(v) == v.kind = "size"

\* C2: for every processed disk and each of Data_Read and Data_Written, the
\* delta of the row is "N/A" whenever the loaded snapshot holds no parseable
\* value for that disk and attribute (disk missing, attribute missing, value
\* "N/A" or otherwise unparseable) or the extractor returned none; a delta
\* other than "N/A" appears only when both values are present and parseable.
C2_DeltaNeedsBothValues ==
    \A i \in DOMAIN all_disk_data : \A attr \in Counters :
        LET e == all_disk_data[i]
        IN  (DeltaOf(e, attr) # NA) <=>
               (Parseable(StoredValue(e.disk_name, attr)) /\ Parseable(CurrentValue(e, attr)))

\* one row with a delta from a stored and a current value, and with "N/A" for
\* a current value whose stored value is "N/A"
C2_Witness ==
    \E i \in DOMAIN all_disk_data :
        LET e == all_disk_data[i]
        IN  /\ e.disk_name = "sda"
            /\ StoredValue("sda", "Data_Read") = SizeStr(15000, 0, GB)
            /\ CurrentValue(e, "Data_Read") = SizeStr(200, 2, TB)
            /\ ReadDelta(e) = SizeStr(185, 2, TB)
            /\ StoredValue("sda", "Data_Written") = NA
            /\ CurrentValue(e, "Data_Written") = SizeStr(5000, 1, GB)
            /\ WriteDelta(e) = NA

\* ------------------------------------------------ reading the snapshot
Names == {disks[k].name : k \in DOMAIN disks}
HasCounters(disk) == ClassOf(disk) # "VIRTUAL"

\* the record a run extracts for a disk: the two counters as the extractor
\* returned them, "N/A" for one it did not return; none for a virtual disk
Extracted(k) ==
    IF HasCounters(disks[k])
    THEN PyDict([Data_Read |-> Get(smart_data[k], "Data_Read", NA),
                 Data_Written |-> Get(smart_data[k], "Data_Written", NA)])
    ELSE PyDict(EmptyDict)

\* the disks map of a file, read back; None when the document is no object
DisksIn(f) ==
    LET data == load_previous_disk_data(f)
    IN  IF data.kind = "dict" THEN previous_disks_of(data) ELSE None
SaveSucceeded == pc \in {"report", "done"} /\ save_outcome = "ok"

\* C3: after a run that processed its disks and whose save succeeded, the
\* disks of DATA_FILE are exactly the disks of the run's inventory, each with
\* the values this run extracted; nothing of the file the run started with
\* (a disk no longer listed, an older value) is left, in any run.
C3_SnapshotReplaced ==
    SaveSucceeded =>
        /\ DisksIn(file).kind = "dict"
        /\ DOMAIN DisksIn(file).m = Names
        /\ \A k \in DOMAIN disks : DisksIn(file).m[disks[k].name] = Extracted(k)

\* a second run over sda alone, started with a file that lists sda and
\* nvme0n1, leaves a file that lists sda alone, with a new value
C3_Witness ==
    /\ clock = 2
    /\ SaveSucceeded
    /\ DisksIn(file0).kind = "dict"
    /\ DOMAIN DisksIn(file0).m = {"sda", "nvme0n1"}
    /\ Names = {"sda"}
    /\ DOMAIN DisksIn(file).m = {"sda"}
    /\ DisksIn(file0).m["sda"].kind = "dict"
    /\ DisksIn(file0).m["sda"].m["Data_Read"] = SizeStr(15000, 0, GB)
    /\ DisksIn(file).m["sda"].m["Data_Read"] = SizeStr(200, 2, TB)

StampOf(f) ==
    LET data == load_previous_disk_data(f)
    IN  IF data.kind = "dict" THEN previous_time_of(data) ELSE EmptyStr

\* C5: for every map m of disks to records, save_disk_data(m) that succeeds
\* followed by load_previous_disk_data() returns a snapshot whose disks map is
\* m, key for key and value for value, with the timestamp of the save, which
\* is not the timestamp of the file that was there before.
C5_SaveLoadRoundTrip ==
    (pc = "return" /\ save_outcome = "ok") =>
        /\ ret.kind = "dict"
        /\ DOMAIN ret.m = {"timestamp", "disks"}
        /\ ret.m["disks"] = inp
        /\ DOMAIN ret.m["disks"].m = DOMAIN inp.m
        /\ \A n \in DOMAIN inp.m : ret.m["disks"].m[n] = inp.m[n]
        /\ ret.m["timestamp"] = TimeStr(clock)
        /\ ret.m["timestamp"] # StampOf(file0)

\* a map of two disks saved over a file that lists other disks, and read back
C5_Witness ==
    /\ pc = "return" /\ save_outcome = "ok"
    /\ file0 = OldFileNoTime
    /\ inp = PyDict([sda |-> PyDict([Data_Read |-> SizeStr(15000, 0, GB), Data_Written |-> NA]),
                     nvme0n1 |-> PyDict(EmptyDict)])
    /\ ret.m["disks"] = inp

\* C6: loading the snapshot never ends the run, whatever the file holds: an
\* absent or unparseable file gives the empty snapshot (timestamp "", no
\* disks), no run ends in a traceback, and a run with an inventory goes on to
\* process every disk, with "N/A" for each delta that has no baseline value.
C6_LoadNeverFatal ==
    /\ (calls.loads = 1 /\ file0.kind \in {"absent", "garbage"}) =>
           previous_data = PyDict([timestamp |-> EmptyStr, disks |-> PyDict(EmptyDict)])
    /\ pc # "crashed"
    /\ exit_code # Status(1) \/ ~host.smartctl
    /\ (pc \in {"report", "done"} /\ disks # <<>>) =>
           /\ Len(all_disk_data) = Len(disks)
           /\ \A i \in DOMAIN all_disk_data : \A attr \in Counters :
                StoredValue(all_disk_data[i].disk_name, attr) = None
                    => DeltaOf(all_disk_data[i], attr) = NA

\* the file holds the JSON document [] and the run ends at the load, in a
\* traceback, with an inventory of which no disk was processed
C6_Witness ==
    /\ file0 = FileJson(JArray)
    /\ pc = "crashed" /\ exit_code = Status(1)
    /\ calls.loads = 1 /\ disks # <<>> /\ all_disk_data = <<>>

\* the row the loop builds for the k-th disk of the inventory from what the
\* extractor returned and what was loaded; the outcome of the save is no
\* argument of it
RowOf(k) ==
    Row(disks[k], disk_to_pool, ClassOf(disks[k]), smart_data[k],
        Get(previous_disks_of(previous_data).m, disks[k].name, PyDict(EmptyDict)))
SaveFailed == save_outcome \in {"unwritable", "truncated"}

\* C7: when save_disk_data fails the run goes on to its report and ends with
\* status 0; it has one row per disk, each with the attributes and deltas
\* built from the extractor's result and the loaded snapshot, the rows a
\* successful save leaves too, and these rows are the tables of disks it
\* prints; DATA_FILE is left as it was or unparseable, so that the next run
\* loads nothing of this run.
C7_SaveFailureNotFatal ==
    /\ save_outcome # "none" =>
         /\ pc \in {"report", "done"}
         /\ exit_code = IF pc = "done" THEN Status(0) ELSE None
         /\ Len(all_disk_data) = Len(disks)
         /\ \A i \in DOMAIN all_disk_data :
              all_disk_data[i].row = RowOf(IndexOf(all_disk_data[i].disk_name))
         /\ \A k \in DOMAIN disks : \E i \in DOMAIN all_disk_data :
              all_disk_data[i].disk_name = disks[k].name
         /\ pc = "done" =>
              SubSeq(output_tables, 1, Len(DiskTables(all_disk_data, host.no_group)))
                  = DiskTables(all_disk_data, host.no_group)
    /\ SaveFailed =>
         /\ file \in {file0, FileGarbage}
         /\ load_previous_disk_data(file) \in
                {load_previous_disk_data(file0), load_previous_disk_data(FileAbsent)}

\* a run over two disks whose save failed half way: it ended with status 0
\* and a delta in its rows, and left a file the next run cannot parse
C7_Witness ==
    /\ pc = "done" /\ exit_code = Status(0)
    /\ save_outcome = "truncated"
    /\ Len(disks) = 2 /\ Len(all_disk_data) = 2
    /\ file0 = OldFileExtraKeys /\ file = FileGarbage
    /\ \E i \in DOMAIN all_disk_data : ReadDelta(all_disk_data[i]) \notin {NA, RESET}
    /\ output_tables # <<>>

\* the inventory stage ran and neither midclt nor lsblk gave a disk
NoInventory ==
    /\ pc \notin {"main", "controllers", "inventory"}
    /\ host.smartctl /\ ~host.controller_only
    /\ disks = <<>>

\* C8: when neither midclt nor lsblk yields a disk, the run ends there: it
\* has no row and prints no table of disks, it resolves no pool and runs no
\* extractor, it neither loads DATA_FILE nor saves it, and the file is the
\* one the run started with.
C8_NoInventoryEndsDiskProcessing ==
    NoInventory =>
        /\ pc = "done"
        /\ all_disk_data = <<>> /\ increment_disk_data = <<>> /\ output_tables = <<>>
        /\ disk_to_pool = EmptyDict /\ calls.pools = 0
        /\ smart_data = <<>> /\ calls.probes = 0 /\ calls.deltas = 0
        /\ previous_data = None /\ calls.loads = 0
        /\ save_outcome = "none" /\ calls.saves = 0
        /\ file = file0

\* a second run that finds no disk, on a host with midclt, after a run that
\* saved two disks: the file still lists the two disks
C8_Witness ==
    /\ NoInventory /\ pc = "done"
    /\ clock = 2 /\ host.midclt /\ host.lsblk
    /\ file = file0
    /\ DisksIn(file).kind = "dict" /\ DOMAIN DisksIn(file).m = {"sda", "nvme0n1"}
    /\ StampOf(file) = TimeStr(1)

\* the k-th disk is one whose commands gave no output, or whose output held
\* nothing an extractor matches
Failed(k) == HasCounters(disks[k]) /\ smart_data[k] = EmptyDict
RowsOf(k) == {i \in DOMAIN all_disk_data : all_disk_data[i].disk_name = disks[k].name}
Schema(k) == DISK_TYPE_ATTRIBUTES(ClassOf(disks[k]))

\* C9: whatever disks of an inventory give no SMART data, no run ends in the
\* loop: every disk of the inventory has exactly one row; an attribute the
\* extractor did not return is "N/A" in the row, so that the row of a disk
\* that gave nothing holds "N/A" for every attribute and both deltas; and
\* the row and the saved record of any disk are built from that disk's own
\* result, its pool and its stored record alone, whatever the other disks
\* gave.
C9_DiskFailureIsolated ==
    /\ pc # "crashed"
    /\ Len(smart_data) = Len(all_disk_data) /\ Len(all_disk_data) <= Len(disks)
    /\ \A k \in DOMAIN smart_data :
         /\ Cardinality(RowsOf(k)) = 1
         /\ \A i \in RowsOf(k) :
              /\ all_disk_data[i].row = RowOf(k)
              /\ \A j \in DOMAIN Schema(k) :
                   Schema(k)[j] \notin DOMAIN smart_data[k]
                       => all_disk_data[i].row[FixedColumns + j] = NA
              /\ Failed(k) =>
                   \A c \in DOMAIN all_disk_data[i].row :
                       c > FixedColumns => all_disk_data[i].row[c] = NA
         /\ current_disk_data[disks[k].name] = Saved(ClassOf(disks[k]), smart_data[k])
    /\ (pc \in {"report", "done"} /\ disks # <<>>) => Len(all_disk_data) = Len(disks)

\* a run over two disks on a file whose records are null: the first disk
\* gave no SMART data and has its row of "N/A", the second gave its counters
\* and the run ended there, in a traceback, without a row for it
C9_Witness ==
    /\ pc = "crashed" /\ exit_code = Status(1)
    /\ Len(disks) = 2 /\ Len(all_disk_data) = 1
    /\ Failed(1)
    /\ \A i \in RowsOf(1) : \A c \in DOMAIN all_disk_data[i].row :
         c > FixedColumns => all_disk_data[i].row[c] = NA
    /\ previous_data.kind = "dict" /\ previous_disks_of(previous_data).kind = "dict"
    /\ disks[2].name \in DOMAIN previous_disks_of(previous_data).m
    /\ previous_disks_of(previous_data).m[disks[2].name] = None

\* the cell of the pool in a row
PoolCell(e) == e.row[FixedColumns]

\* C10: whatever tool the host lacks (smartctl, storcli, lspci, midclt,
\* zpool), the run is not aborted: it never ends with status 1 or in a
\* traceback, it ends with status 0 after the controller stage and the disk
\* stage have run, the controller tables are what the tools that are there
\* give, and a run with an inventory has one row per disk, whose pool is
\* "unassigned" when no pool tool is there.
C10_MissingToolNotFatal ==
    /\ pc # "crashed"
    /\ exit_code \in {None, Status(0)}
    /\ pc = "done" =>
         /\ exit_code = Status(0)
         /\ controller_tables = process_controller_info(host)
    /\ (pc \in {"report", "done"} /\ disks # <<>>) =>
         /\ Len(all_disk_data) = Len(disks)
         /\ (~host.midclt /\ ~host.zpool) =>
               \A i \in DOMAIN all_disk_data : PoolCell(all_disk_data[i]) = Unassigned

\* a host with every tool but smartctl: the run has ended with status 1
\* before the controller stage
C10_Witness ==
    /\ ~host.smartctl /\ host.storcli /\ host.lspci /\ host.midclt /\ host.zpool /\ host.lsblk
    /\ pc = "done" /\ exit_code = Status(1)
    /\ controller_tables = <<>> /\ process_controller_info(host) # <<>>
    /\ disks = <<>> /\ output_tables = <<>>

\* midclt gave nothing to list: its call failed, it printed nothing, what
\* it printed is no JSON, or it printed the empty list
PrimaryEmpty(output) ==
    \/ output \in {None, EmptyStr, MidcltNotJson}
    \/ output.kind = "json" /\ output.disks = <<>>

\* C11: the inventory comes from midclt first: a failed call, no output,
\* invalid JSON and an empty list are all an empty result, after which lsblk
\* is asked and its list is the inventory; when midclt lists at least one
\* disk the inventory is midclt's list and lsblk is not called.
C11_DiscoveryOrder ==
    pc = "return" =>
        IF PrimaryEmpty(inp.output)
        THEN /\ ret.lsblk = 1
             /\ ret.disks = get_disks_from_lsblk(inp.host, inp.names)
        ELSE /\ ret.lsblk = 0
             /\ ret.disks = inp.output.disks
             /\ \A i \in DOMAIN ret.disks : ret.disks[i] = MidcltDisk(inp.names[i])

\* midclt is there and prints text that is no JSON: the two disks of the
\* inventory are those lsblk lists
C11_Witness ==
    /\ pc = "return"
    /\ inp.host.midclt /\ inp.host.lsblk
    /\ inp.output = MidcltNotJson
    /\ ret.lsblk = 1
    /\ Len(ret.disks) = 2
    /\ ret.disks = <<LsblkDisk("sdb"), LsblkDisk("sda")>>

DeviceClasses == {"VIRTUAL", "NVME_SSD", "SAS_HDD", "SAS_SSD"}

\* C12: classify_disk returns one of the four classes for every descriptor,
\* by the first rule that matches: a model with a virtualization marker gives
\* VIRTUAL whatever the name and the type, else a name of an NVMe device gives
\* NVME_SSD, else the type HDD gives SAS_HDD, else SAS_SSD.
C12_ClassifyTotal ==
    pc = "return" =>
        /\ ret.class \in DeviceClasses
        /\ ret.class =
             IF inp.model \in VirtualModels THEN "VIRTUAL"
             ELSE IF inp.name \in NvmeNames THEN "NVME_SSD"
             ELSE IF inp.type \in HddTypes THEN "SAS_HDD"
             ELSE "SAS_SSD"

\* a descriptor of midclt whose model is null: classify_disk raised
C12_Witness ==
    /\ pc = "return"
    /\ inp = [name |-> "sda", type |-> "HDD", model |-> JsonNull]
    /\ ret.class = "TypeError"

\* C13: the row of a disk holds, after the five columns of the descriptor,
\* one cell for each attribute of the schema of the disk's class, in the
\* order of the schema, and the two deltas, and nothing else: an attribute
\* the extractor found that is not in the schema is in no row; each cell is
\* the formatted value of its attribute or "N/A"; the saved record holds
\* attributes of the schema only.
C13_RecordWithinSchema ==
    \A i \in DOMAIN all_disk_data :
        LET e == all_disk_data[i]
            k == IndexOf(e.disk_name)
        IN  /\ e.device_class = ClassOf(disks[k])
            /\ Len(e.row) = FixedColumns + Len(Schema(k)) + 2
            /\ \A j \in DOMAIN Schema(k) :
                 e.row[FixedColumns + j] =
                    IF Schema(k)[j] \in DOMAIN smart_data[k]
                    THEN format_value(smart_data[k][Schema(k)[j]], Schema(k)[j])
                    ELSE NA
            /\ DOMAIN current_disk_data[e.disk_name].m \subseteq Range(Schema(k))

\* a finished run over a virtual disk, whose extractor result holds
\* Smart_Status, and a SAS_HDD disk, whose health text held the endurance
\* indicator: neither is in the rows
C13_Witness ==
    /\ pc = "done" /\ Len(disks) = 2 /\ Len(all_disk_data) = 2
    /\ ClassOf(disks[1]) = "VIRTUAL" /\ "Smart_Status" \in DOMAIN smart_data[1]
    /\ ClassOf(disks[2]) = "SAS_HDD" /\ "Percentage_Used" \in DOMAIN smart_data[2]
    /\ "Percentage_Used" \notin Range(Schema(2))
    /\ \A i \in RowsOf(1) : Len(all_disk_data[i].row) = FixedColumns + 1 + 2
    /\ \A i \in RowsOf(2) : Len(all_disk_data[i].row) = FixedColumns + 9 + 2

\* the status the words of a health text give, PASSED before OK before FAILED
StatusByPriority(health_output) ==
    IF health_output.passed THEN Text("PASSED")
    ELSE IF health_output.ok THEN Text("OK")
    ELSE IF health_output.failed THEN Text("FAILED")
    ELSE Text("unknown")
HealthStatuses == {Text("PASSED"), Text("OK"), Text("FAILED"), Text("unknown")}
IsVmwareNvme == inp.path = "nvme" /\ Truthy(inp.probe.vendor_check) /\ inp.probe.vendor_check.vmware
Has(attr) == attr \in DOMAIN ret.smart

\* C14 as the specification has it: a Smart_Status that is populated is one
\* of PASSED, OK, FAILED and unknown, the one the words of the health text
\* give by the priority PASSED, OK, FAILED, on both paths.
C14_StatusOneOfFour ==
    (pc = "return" /\ Has("Smart_Status")) =>
        /\ ret.smart["Smart_Status"] \in HealthStatuses
        /\ Truthy(inp.probe.health_output)
        /\ ret.smart["Smart_Status"] = StatusByPriority(inp.probe.health_output)

\* C14: on both paths Smart_Status is populated exactly when smartctl -H
\* printed something, with the one of PASSED, OK, FAILED and unknown that the
\* words of the text give by the priority PASSED, OK, FAILED; except for an
\* NVMe device whose PCI vendor is VMware's, whose Smart_Status is "virtual
\* device" whatever smartctl -H prints.
C14_StatusByPriorityOrVirtual ==
    pc = "return" =>
        IF IsVmwareNvme
        THEN Has("Smart_Status") /\ ret.smart["Smart_Status"] = Text("virtual device")
        ELSE /\ Has("Smart_Status") <=> Truthy(inp.probe.health_output)
             /\ Has("Smart_Status") =>
                  /\ ret.smart["Smart_Status"] \in HealthStatuses
                  /\ ret.smart["Smart_Status"] = StatusByPriority(inp.probe.health_output)

\* a SATA health text that holds OK and FAILED and not PASSED gives OK
C14_Witness ==
    /\ pc = "return" /\ inp.path = "sata"
    /\ Truthy(inp.probe.health_output)
    /\ ~inp.probe.health_output.passed /\ inp.probe.health_output.ok /\ inp.probe.health_output.failed
    /\ ret.smart["Smart_Status"] = Text("OK")

\* the output of smartctl -a was read: there is one, and the device is no
\* VMware NVMe device
OutputRead == pc = "return" /\ Truthy(inp.probe.output) /\ ~IsVmwareNvme

\* C15: on the NVMe path a temperature t above 200 is reported as t - 273.15
\* to one decimal (300 as 26.9) and a temperature up to 200 as it is (45 as
\* 45); on the SATA path the captured temperature is reported as it is,
\* whatever its value.
C15_KelvinOnNvmeOnly ==
    OutputRead =>
        IF inp.path = "nvme"
        THEN LET t == inp.probe.output.temp
             IN  /\ Has("Temperature") <=> t # None
                 /\ (t # None /\ t.n > 200) =>
                      /\ ret.smart["Temperature"].kind = "decimal"
                      /\ 100 * t.n - 27315 - 10 * ret.smart["Temperature"].tenths \in -5 .. 5
                 /\ (t # None /\ t.n <= 200) => ret.smart["Temperature"] = t
                 /\ t = IntStr(300) => ret.smart["Temperature"] = DecStr(269)
                 /\ t = IntStr(45) => ret.smart["Temperature"] = IntStr(45)
        ELSE LET c == FirstMatch(inp.probe.output.temp)
             IN  /\ Has("Temperature") <=> c # None
                 /\ c # None => ret.smart["Temperature"] = c

\* 300 on the NVMe path gives 26.9
C15_Witness ==
    /\ OutputRead /\ inp.path = "nvme"
    /\ inp.probe.output.temp = IntStr(300)
    /\ ret.smart["Temperature"] = DecStr(269)

\* the capture of the first strategy that matches, or None
Winner(caps) ==
    IF \E i \in DOMAIN caps : caps[i] # None /\ \A j \in 1 .. (i - 1) : caps[j] = None
    THEN caps[CHOOSE i \in DOMAIN caps : caps[i] # None /\ \A j \in 1 .. (i - 1) : caps[j] = None]
    ELSE None

\* the digits of a capture, without the thousands separators
Digits(capture) == IF capture.kind = "int" THEN [capture EXCEPT !.commas = FALSE] ELSE capture

FirstWins(attribute, caps) ==
    /\ Has(attribute) <=> \E i \in DOMAIN caps : caps[i] # None
    /\ Has(attribute) =>
         /\ ret.smart[attribute] = Digits(Winner(caps))
         /\ \A i \in DOMAIN caps :
              (caps[i] # None /\ Digits(caps[i]) # Digits(Winner(caps))) => ret.smart[attribute] # Digits(caps[i])

\* C16: Power_On_Hours on both paths, and Power_Cycles on the SATA path, hold
\* the capture of the first strategy, in the declared order, that matches the
\* output, without its thousands separators; a later strategy is not applied,
\* and the attribute is absent exactly when no strategy matches.
C16_FirstStrategyWins ==
    OutputRead =>
        /\ FirstWins("Power_On_Hours", inp.probe.output.hours)
        /\ inp.path = "sata" => FirstWins("Power_Cycles", inp.probe.output.cycles)

\* only the third pattern matches, and its capture is the value
C16_Witness ==
    /\ OutputRead /\ inp.path = "sata"
    /\ inp.probe.output.hours = <<None, None, Capture(3), None, None, None>>
    /\ ret.smart["Power_On_Hours"] = IntStr(1003)

\* the first pattern matches with thousands separators, and so do later ones
C16_WitnessSeparators ==
    /\ OutputRead /\ inp.path = "nvme"
    /\ inp.probe.output.hours = <<CommaStr(1001), None, Capture(3), Capture(4)>>
    /\ ret.smart["Power_On_Hours"] = IntStr(1001)

\* the output has a row of this kind in the regular layout
HasRow(io_type) ==
    \E i \in DOMAIN inp.probe.output.fallback : inp.probe.output.fallback[i][1] = io_type

\* neither section pattern yields the attribute
NoSectionYields(field) ==
    /\ inp.probe.output.sec1 = None \/ inp.probe.output.sec1[field] = None
    /\ inp.probe.output.sec2 = None \/ inp.probe.output.sec2[field] = None

\* C17: on the SATA path, whenever the section patterns yield no Data_Read
\* (Data_Written) and the output has a read: (write:) row in the regular
\* layout, the attribute is populated from the magnitude of that row.
C17_FallbackApplied ==
    (OutputRead /\ inp.path = "sata") =>
        /\ (NoSectionYields("read") /\ HasRow("read")) => Has("Data_Read")
        /\ (NoSectionYields("write") /\ HasRow("write")) => Has("Data_Written")

\* an output without the line "Non-medium error count:": the rows are there,
\* the sections yield nothing, and neither attribute is extracted
C17_Witness ==
    /\ OutputRead /\ inp.path = "sata"
    /\ inp.probe.output.non_medium = None
    /\ NoSectionYields("read") /\ HasRow("read")
    /\ NoSectionYields("write") /\ HasRow("write")
    /\ ~Has("Data_Read") /\ ~Has("Data_Written")

\* with that line the fallback is applied, and reads the magnitude as GB
C17_WithNonMedium ==
    (OutputRead /\ inp.path = "sata" /\ inp.probe.output.non_medium # None) =>
        /\ (NoSectionYields("read") /\ HasRow("read")) =>
             /\ Has("Data_Read")
             /\ ret.smart["Data_Read"] = normalize_size_unit(NumStr(ShiftL(FromInt(15000), GB)))
        /\ (NoSectionYields("write") /\ HasRow("write")) => Has("Data_Written")


\* C18: normalize_size_unit applied to its own result gives that result
\* again, for labelled sizes and bare byte counts, at the precision boundaries
\* and after an escalation too.
C18_NormalizeIdempotent == pc = "return" => ret.twice = ret.once

\* a size just below 100 GB is rendered "100.0 GB", and that as "100 GB"
C18_Witness ==
    /\ pc = "return"
    /\ inp = SizeStr(9996, 2, GB)
    /\ ret.once = SizeStr(10000, 1, GB)
    /\ ret.twice = SizeStr(10000, 0, GB)

\* away from the boundaries the result is a fixed point: a result that keeps
\* its number of decimals when rendered again is rendered as itself
C18_StableAwayFromBoundary ==
    (pc = "return" /\ ret.once.kind = "size" /\ ret.twice.dec = ret.once.dec) => ret.twice = ret.once

\* the bare byte count 1024^4
OneTiB == NumStr(ShiftL(FromInt(100), TB))

\* C19 as stated: normalize_size_unit("1099511627776") is "1 TB".
C19_OneTB == (pc = "return" /\ inp = OneTiB) => ret.once = SizeStr(100, 0, TB)

\* C19, amended: normalize_size_unit("1099511627776") is "1.00 TB", a value
\* below 10 in its unit having two decimals.
C19_OneTBTwoDecimals == (pc = "return" /\ inp = OneTiB) => ret.once = SizeStr(100, 2, TB)

C19_Witness == pc = "return" /\ inp = OneTiB /\ ret.once = SizeStr(100, 2, TB)


\* the rank of a suffix in the order y, m, d, hrs
SuffixRank(suffix) == CASE suffix = "y" -> 1 [] suffix = "m" -> 2 [] suffix = "d" -> 3 [] suffix = "hrs" -> 4

\* the number a duration gives for a suffix, 0 when it has no such component
Component(parts, suffix) ==
    IF \E i \in DOMAIN parts : parts[i][2] = suffix
    THEN parts[CHOOSE i \in DOMAIN parts : parts[i][2] = suffix][1]
    ELSE 0

IsCount(x) == x.kind = "int" /\ ~x.commas

\* C20: for a count of hours h the result has, in the order y, m, d, hrs,
\* exactly the components of h by successive divmod by 8760, 720 and 24 that
\* are not zero, and the one component 0hrs when h = 0; 26301 gives
\* "3y 21hrs"; what is no count comes back unchanged.
C20_Duration ==
    pc = "return" =>
        IF IsCount(inp)
        THEN LET parts == ret.text.parts
                 y == Component(parts, "y")
                 m == Component(parts, "m")
                 d == Component(parts, "d")
                 hrs == Component(parts, "hrs")
             IN  /\ ret.text.kind = "dur"
                 /\ \A i, j \in DOMAIN parts : i < j => SuffixRank(parts[i][2]) < SuffixRank(parts[j][2])
                 /\ HoursPerYear * y + HoursPerMonth * m + HoursPerDay * d + hrs = inp.n
                 /\ hrs < HoursPerDay
                 /\ HoursPerDay * d + hrs < HoursPerMonth
                 /\ HoursPerMonth * m + HoursPerDay * d + hrs < HoursPerYear
                 /\ IF inp.n = 0 THEN parts = <<<<0, "hrs">>>>
                    ELSE \A i \in DOMAIN parts : parts[i][1] > 0
                 /\ inp.n = 26301 => parts = <<<<3, "y">>, <<21, "hrs">>>>
        ELSE ret.text = inp

C20_Witness ==
    /\ pc = "return" /\ inp = IntStr(26301)
    /\ ret.text = Duration(<<<<3, "y">>, <<21, "hrs">>>>)

\* a formatted duration comes back as it is
C20_WitnessFormatted ==
    /\ pc = "return" /\ inp = Duration(<<<<3, "y">>, <<21, "hrs">>>>)
    /\ ret.text = inp


\* the identifier of a node: its disk field, else its path, else its device,
\* without directory and partition suffix; the empty string when it has none
Identifier(node) ==
    IF node.disk # <<>> THEN node.disk
    ELSE IF node.path # <<>> THEN StripPartition(LastSegment(node.path))
    ELSE IF node.device # <<>> THEN StripPartition(LastSegment(node.device))
    ELSE <<>>

\* the nodes of a tree down to the third level
NodesOf(vdev) ==
    {vdev} \cup Range(vdev.children)
    \cup UNION {Range(c.children) : c \in Range(vdev.children)}

TwoLevelsOf(vdev) == {vdev} \cup Range(vdev.children)

\* C21: every node of every named pool's tree that has an identifier (a
\* vdev, its children and their descendants) is mapped to the pool's name,
\* by its disk field when it has one and else by its path or device without
\* the partition suffix; a vdev is mapped in addition to its children.
C21_EveryNodeMapped ==
    pc = "return" =>
        \A i \in DOMAIN inp : inp[i].name # <<>> =>
            \A j \in DOMAIN inp[i].topology : \A v \in Range(inp[i].topology[j]) :
                \A node \in NodesOf(v) :
                    (node.disk # <<>> \/ node.path # <<>> \/ node.device # <<>>) =>
                        /\ Identifier(node) \in DOMAIN ret.disk_to_pool
                        /\ ret.disk_to_pool[Identifier(node)] = inp[i].name

\* a disk of a group that is a child of a vdev is in no pool
C21_Witness ==
    /\ pc = "return"
    /\ \E j \in DOMAIN inp[1].topology : \E v \in Range(inp[1].topology[j]) :
         Replacing \in Range(v.children)
    /\ inp[1].name = Tank
    /\ Sdc \notin DOMAIN ret.disk_to_pool

\* down to the children of a vdev the code does what the claim says, and
\* nothing but identifiers of nodes is a key
C21_TwoLevelsMapped ==
    pc = "return" =>
        /\ \A i \in DOMAIN inp : inp[i].name # <<>> =>
             \A j \in DOMAIN inp[i].topology : \A v \in Range(inp[i].topology[j]) :
                 \A node \in TwoLevelsOf(v) :
                     (node.disk # <<>> \/ node.path # <<>> \/ node.device # <<>>) =>
                         /\ Identifier(node) \in DOMAIN ret.disk_to_pool
                         /\ ret.disk_to_pool[Identifier(node)] = inp[i].name
        /\ \A k \in DOMAIN ret.disk_to_pool :
             \E i \in DOMAIN inp : \E j \in DOMAIN inp[i].topology : \E v \in Range(inp[i].topology[j]) :
                 \E node \in TwoLevelsOf(v) : inp[i].name # <<>> /\ Identifier(node) = k


\* the assignments the topology of midclt gives: the identifiers of the
\* vdevs and their children, in the named pools
TopTwoLevels(pool) ==
    UNION {UNION {TwoLevelsOf(v) : v \in Range(pool.topology[j])} : j \in DOMAIN pool.topology}

PrimaryAssignments(reply) ==
    IF reply.kind # "pools" THEN {}
    ELSE UNION {{<<Identifier(node), pool.name>> : node \in TopTwoLevels(pool)} :
                  pool \in {q \in Range(reply.pools) : q.name # <<>>}}
         \ {<<<<>>, n>> : n \in {Tank, Fast}}

AsPairs(d) == {<<k, d[k]>> : k \in DOMAIN d}

\* C22: the pool map is the map of the topology whenever that has an
\* assignment, and zpool status is then not run; it is the map parsed from
\* zpool status exactly when the topology gives none (no output, no JSON, no
\* walkable JSON, no pool with a disk).  `pool: tank' followed by
\* `ada0 ONLINE' gives exactly {ada0: tank}.
C22_TopologyFirst ==
    pc = "return" =>
        /\ ret.zfs <=> PrimaryAssignments(inp.reply) = {}
        /\ ~ret.zfs => AsPairs(ret.disk_to_pool) = PrimaryAssignments(inp.reply)
        /\ ret.zfs => ret.disk_to_pool = disk_to_pool_of_status(inp.status)
        /\ (ret.zfs /\ inp.status = StatusText(<<PoolTank, <<Ada0, ONLINE>>>>)) =>
             AsPairs(ret.disk_to_pool) = {<<Ada0, Tank>>}

\* an empty list of pools, and the two lines
C22_Witness ==
    /\ pc = "return"
    /\ inp.reply = PoolList(<<>>)
    /\ inp.status = StatusText(<<PoolTank, <<Ada0, ONLINE>>>>)
    /\ ret.zfs
    /\ AsPairs(ret.disk_to_pool) = {<<Ada0, Tank>>}

\* a topology with an assignment: zpool status is not run
C22_WitnessPrimary ==
    /\ pc = "return"
    /\ inp.reply = PoolList(<<PoolRecord(Tank, <<<<Node(Sda, <<>>, <<>>, <<>>)>>>>)>>)
    /\ inp.status = StatusText(<<PoolTank, <<Ada0, ONLINE>>>>)
    /\ ~ret.zfs
    /\ AsPairs(ret.disk_to_pool) = {<<Sda, Tank>>}


\* the pool of the header seen last before line i, the empty name when none
RECURSIVE PoolBefore(_, _)
PoolBefore(lines, i) ==
    IF i <= 1 THEN <<>>
    ELSE IF IsPoolLine(lines[i - 1]) THEN PoolNameOf(lines[i - 1])
    ELSE PoolBefore(lines, i - 1)

\* line i names a device under a pool
IsDeviceLine(lines, i) ==
    lines[i] # <<>> /\ lines[i][1] \in DeviceWords /\ PoolBefore(lines, i) # <<>>

\* C23: every line after a pool header whose first word is a device name is
\* assigned to the pool seen last, whatever the name of the device, and
\* nothing but device names is a key: no vdev label, no word of a header or
\* status line.
C23_DeviceKeysOnly ==
    pc = "return" =>
        /\ \A i \in DOMAIN inp.lines : IsDeviceLine(inp.lines, i) =>
             /\ LastSegment(inp.lines[i][1]) \in DOMAIN ret.disk_to_pool
             /\ (\A j \in DOMAIN inp.lines : j > i => inp.lines[j] # inp.lines[i]) =>
                  ret.disk_to_pool[LastSegment(inp.lines[i][1])] = PoolBefore(inp.lines, i)
        /\ DOMAIN ret.disk_to_pool \subseteq {LastSegment(w) : w \in DeviceWords}

\* the label of a vdev is a key
C23_Witness ==
    /\ pc = "return"
    /\ inp.lines = <<<<PoolColon, Tank>>, <<Mirror0>>, <<<<"a", "d", "a", "0">>, <<"O", "N", "L", "I", "N", "E">>>>>>
    /\ Mirror0 \in DOMAIN ret.disk_to_pool

\* a disk whose name begins with the name of its pool is no key
C23_WitnessPrefix ==
    /\ pc = "return"
    /\ inp.lines[1] = <<PoolColon, Tank>> /\ inp.lines[2] = <<Tank2, <<"O", "N", "L", "I", "N", "E">>>>
    /\ Tank2 \notin DOMAIN ret.disk_to_pool

\* what holds: a key is the first word of a line under a pool, without its
\* directory, and its value is the name of a pool of the text
C23_KeysAreFirstWords ==
    pc = "return" =>
        \A k \in DOMAIN ret.disk_to_pool :
            \E i \in DOMAIN inp.lines :
                /\ inp.lines[i] # <<>> /\ LastSegment(inp.lines[i][1]) = k
                /\ inp.lines[i][1] \notin VdevWords
                /\ ret.disk_to_pool[k] = PoolBefore(inp.lines, i)


\* the run is over, by return or by traceback, and had a disk to process
RunOver == pc \in {"done", "crashed"} /\ calls.loads = 1

\* the timestamp of the snapshot the run loaded is not empty
HasPreviousTime ==
    previous_data.kind = "dict" /\ Truthy(previous_time_of(previous_data))

\* how often the run retrieved the data of a disk
RetrievalsOf(disk) == Get(calls.retrievals, disk.name, 0)

RetrievedTimes(n) ==
    \A k \in DOMAIN disks :
        RetrievalsOf(disks[k]) = IF ClassOf(disks[k]) = "VIRTUAL" THEN 0 ELSE n

\* C24: in a run whose snapshot has a timestamp the data of every disk that
\* is not VIRTUAL is retrieved exactly twice, in a run without one exactly
\* once, and the data of a VIRTUAL disk never.
C24_RetrievedTwice ==
    RunOver => IF HasPreviousTime THEN RetrievedTimes(2) ELSE RetrievedTimes(1)

\* a run whose snapshot has a timestamp and ends in the traceback of the
\* main pass: the disk at hand was retrieved once, the others never
C24_Witness ==
    /\ RunOver /\ pc = "crashed" /\ HasPreviousTime
    /\ \E k \in DOMAIN disks : ClassOf(disks[k]) # "VIRTUAL" /\ RetrievalsOf(disks[k]) = 1

\* in the runs that return the counts are as stated
C24_RetrievedTwiceWhenReturning ==
    (pc = "done" /\ calls.loads = 1) =>
        IF HasPreviousTime THEN RetrievedTimes(2) ELSE RetrievedTimes(1)

C24_WitnessReturning ==
    /\ pc = "done" /\ calls.loads = 1 /\ HasPreviousTime /\ Len(disks) = 2
    /\ RetrievedTimes(2)
    /\ \E k \in DOMAIN disks : ClassOf(disks[k]) # "VIRTUAL"

\* the second pass comes after the save and changes neither the file nor the
\* rows and deltas of the main pass
C24_SecondPassReadOnly ==
    [][pc = "report" => /\ calls.saves = 1
                        /\ file' = file
                        /\ all_disk_data' = all_disk_data
                        /\ current_disk_data' = current_disk_data]_vars

\* ------------------------------------------------------ runs in succession
\* process_disk_info run after run on a host whose one disk is sda, a SAS HDD.
\* ret is the record of the runs so far: what the extractor returned, the two
\* deltas of the row, whether the run ended in a traceback before its save and
\* whether its save wrote the file.
Successions == 3

BaselineDisk == "sda"
BaselineClass == "SAS_HDD"

RunRecord(crashed, smart, read, written, saved) ==
    [crashed |-> crashed, smart |-> smart, read |-> read, written |-> written,
     saved |-> saved]

\* a variant that keeps the stored value of a counter the extractor did not
\* return
NextSnapshot_keeping(f, prev_disk, smart, now, outcome) ==
    LET fresh == Saved(BaselineClass, smart).m
        kept == [a \in DOMAIN fresh |->
                    IF a \notin DOMAIN smart /\ In(a, prev_disk) THEN prev_disk.m[a]
                    ELSE fresh[a]]
    IN  save_disk_data(f, Put(EmptyDict, BaselineDisk, PyDict(kept)), now, outcome)

\* lines 1170-1181 and 1201-1202: the formatted values of the run, saved
NextSnapshot(f, prev_disk, smart, now, outcome) ==
    save_disk_data(f, Put(EmptyDict, BaselineDisk, Saved(BaselineClass, smart)), now, outcome)

InitBaseline ==
    /\ pc = "main"
    /\ inp = None /\ ret = <<>>
    /\ host = None
    /\ file \in ToleratedFiles \cup OtherFiles
    /\ file0 = file
    /\ clock = 1
    /\ controller_tables = <<>> /\ disks = <<>> /\ disk_to_pool = EmptyDict
    /\ previous_data = None /\ current_disk_data = EmptyDict /\ all_disk_data = <<>>
    /\ smart_data = <<>> /\ increment_disk_data = <<>> /\ output_tables = <<>>
    /\ exit_code = None /\ calls = None /\ save_outcome = "none"

\* one run, from load_previous_disk_data to save_disk_data
RunOnce ==
    /\ pc = "main"
    /\ clock <= Successions
    /\ \E smart \in SataExtracts, outcome \in SaveOutcomes :
         LET data == load_previous_disk_data(file)
             previous_disks == IF data.kind = "dict" THEN previous_disks_of(data) ELSE None
             raises == data.kind # "dict" \/ IncrementRaises(smart, previous_disks, BaselineDisk)
             prev_disk == IF raises THEN None
                          ELSE Get(previous_disks.m, BaselineDisk, PyDict(EmptyDict))
         IN  IF raises
             THEN /\ ret' = Append(ret, RunRecord(TRUE, smart, NA, NA, FALSE))
                  /\ UNCHANGED file
             ELSE /\ ret' = Append(ret, RunRecord(FALSE, smart,
                                                  Increment("Data_Read", smart, prev_disk),
                                                  Increment("Data_Written", smart, prev_disk),
                                                  outcome = "ok"))
                  /\ file' = NextSnapshot(file, prev_disk, smart, clock, outcome)
    /\ clock' = clock + 1
    /\ UNCHANGED <<pc, inp, host, controller_tables, disks, disk_to_pool, previous_data,
                   current_disk_data, all_disk_data, smart_data, increment_disk_data,
                   output_tables, exit_code, calls, file0, save_outcome>>

NextBaseline == RunOnce

SpecBaseline == InitBaseline /\ [][NextBaseline]_vars

\* the delta a run shows for a counter, and the delta it would show against
\* what the run before extracted
ShownDelta(run, attr) == IF attr = "Data_Read" THEN run.read ELSE run.written

DeltaAgainst(before, run, attr) ==
    LET p == Get(before.smart, attr, None)
        c == Get(run.smart, attr, None)
        d == ShownDelta(run, attr)
    IN  IF ~Parseable(p) \/ ~Parseable(c) THEN d = NA
        ELSE IF SmallerBytes(c, p) THEN d = RESET
        ELSE /\ Parseable(d)
             /\ d = calculate_size_increment(p, c)
             /\ (SameBytes(c, p) => d.h = 0)

\* C25, as stated: over any sequence of runs, the deltas of run n+1 are taken
\* against what run n extracted: N/A where run n found the counter absent, the
\* reset marker only where the counter of run n+1 is below that of run n, and
\* an increment that is not negative otherwise.
C25_BaselineIsLastRun ==
    \A n \in 1 .. (Len(ret) - 1) :
        (~ret[n].crashed /\ ~ret[n + 1].crashed) =>
            \A attr \in Counters : DeltaAgainst(ret[n], ret[n + 1], attr)

\* C25, amended: the deltas of run n+1 are taken against what run n extracted
\* whenever run n's save wrote the file, also when run n showed the reset
\* marker or found the counter absent.
C25_BaselineIsLastSavedRun ==
    \A n \in 1 .. (Len(ret) - 1) :
        (~ret[n].crashed /\ ret[n].saved /\ ~ret[n + 1].crashed) =>
            \A attr \in Counters : DeltaAgainst(ret[n], ret[n + 1], attr)

\* a counter that dropped at run 2 (saved) and did not decrease at run 3 shows
\* the reset marker at run 2 only
C25_Witness ==
    /\ Len(ret) = 3
    /\ ret[2].read = RESET /\ ret[2].saved
    /\ ~ret[3].crashed /\ Parseable(ret[3].read)

\* ------------------------------------------- two counts, stored and compared
\* Two byte counts a <= b, each stored as normalize_size_unit renders it, and
\* the delta calculate_size_increment finds between the two renderings.  The
\* counts are whole numbers of bytes: multiples of a quarter of a unit around
\* the precision steps at 10 and 100, the escalation at 1000 and the ladder
\* step at 1024, the byte below each step, and small counts of bytes.
Quarters == {25, 50, 100, 975, 1000, 1025, 9975, 10000, 10025, 97650, 99975, 100000,
             100025, 102375}

ByteCounts ==
    {ShiftL(FromInt(h), u) : h \in Quarters, u \in KB .. TB}
    \cup {Sub(ShiftL(FromInt(100 * n), u), FromInt(100)) : n \in {1, 10, 100, 1000}, u \in KB .. TB}
    \cup {FromInt(100 * n) : n \in {0, 1, 9, 10, 99, 100, 999, 1000, 1023}}

OrderedCounts == {p \in ByteCounts \X ByteCounts : ~Less(p[2], p[1])}

InitMonotone ==
    /\ pc = "call normalize_size_unit"
    /\ inp \in OrderedCounts
    /\ ret = None
    /\ Idle

\* lines 1175-1181: the two counts as two runs store them
StoreBoth ==
    /\ pc = "call normalize_size_unit"
    /\ ret' = [previous |-> normalize_size_unit(NumStr(inp[1])),
               current |-> normalize_size_unit(NumStr(inp[2])),
               delta |-> None]
    /\ pc' = "call calculate_size_increment"
    /\ UNCHANGED <<inp, runVars>>

\* lines 1186-1196: the delta between the stored and the current rendering
CompareStored ==
    /\ pc = "call calculate_size_increment"
    /\ ret' = [ret EXCEPT !.delta = calculate_size_increment(ret.previous, ret.current)]
    /\ pc' = "return"
    /\ UNCHANGED <<inp, runVars>>

NextMonotone == StoreBoth \/ CompareStored

SpecMonotone == InitMonotone /\ [][NextMonotone]_vars

\* C26: for two byte counts a <= b, the rendering of a does not denote more
\* bytes than the rendering of b, and the delta from the rendering of a to the
\* rendering of b is a size, never the reset marker.
C26_NoFabricatedReset ==
    pc = "return" =>
        /\ ~SmallerBytes(ret.current, ret.previous)
        /\ ret.delta # RESET
        /\ Parseable(ret.delta)

\* a < b on the two sides of the escalation: the smaller count truncated to an
\* integer of its unit, the larger with two decimals in the next unit
C26_Witness ==
    /\ pc = "return"
    /\ Less(inp[1], inp[2])
    /\ ret.previous.dec = 0 /\ ret.current.dec = 2
    /\ ret.current.unit = ret.previous.unit + 1
    /\ Parseable(ret.delta)

\* a < b on the two sides of a precision step: the smaller count rounded up to
\* the step, the larger rendered with fewer decimals
C26_WitnessRoundedUp ==
    /\ pc = "return"
    /\ Less(inp[1], inp[2])
    /\ ret.previous.unit = ret.current.unit
    /\ ret.previous.dec > ret.current.dec
    /\ ret.previous.h = ret.current.h
    /\ ret.delta.h = 0

\* the part of the output that follows the disk tables
IsIncrementPart(t) == t.title \in {"no increment data", "increments", "no previous data"}
IncrementSection == SelectSeq(output_tables, IsIncrementPart)
NoIncrementNotice == <<[title |-> "no increment data", rows |-> <<>>]>>

\* C27: no disk ever contributes a row to the increment table, and a run that
\* loaded a snapshot with a timestamp and prints its tables prints, for the
\* increment section, the notice that there is no increment data and nothing
\* else, whatever the deltas of its rows are.
C27_NoIncrementRows ==
    /\ increment_disk_data = <<>>
    /\ \A i \in DOMAIN output_tables : output_tables[i].title # "increments"
    /\ (pc = "done" /\ HasPreviousTime) => IncrementSection = NoIncrementNotice

\* a returning run with a snapshot whose row shows an increment, and one whose
\* row shows the reset marker
C27_Witness ==
    /\ pc = "done" /\ HasPreviousTime
    /\ \E i \in DOMAIN all_disk_data :
         /\ all_disk_data[i].device_class # "VIRTUAL"
         /\ Parseable(ReadDelta(all_disk_data[i]))
    /\ IncrementSection = NoIncrementNotice

C27_WitnessReset ==
    /\ pc = "done" /\ HasPreviousTime
    /\ \E i \in DOMAIN all_disk_data :
         /\ all_disk_data[i].device_class # "VIRTUAL"
         /\ ReadDelta(all_disk_data[i]) = RESET
    /\ IncrementSection = NoIncrementNotice

====
